---- MODULE Spec2Model ----
(***************************************************************************)
(* A model of the client data modules of forge-dataviz-iot-data-modules:   *)
(*   - TaskQueue   (shared/TaskQueue.js): bounded-concurrency task runner  *)
(*   - RequestPool (Hyperion.Data.RequestPool.js): debounced batching,     *)
(*                 deduplication and retry of device property queries      *)
(*   - DataStore / DeviceData / PropertyData (Hyperion.Data.Storage.js,    *)
(*                 Hyperion.Data.DataModel.js): the aggregate cache        *)
(*   - DataView    (Hyperion.Data.DataView.js): a window on a DataStore    *)
(* JavaScript runs one callback at a time, so every action below is one    *)
(* whole callback (an API call, a timer callback or a promise reaction).   *)
(***************************************************************************)
EXTENDS Integers, Sequences, FiniteSets, TLC

VARIABLES
    taskQueue,          \* the TaskQueue object: cocurrent, onGoingTask, queue
    tasks,              \* per task: the onFinish closure and the timers of its dispatch
    executeNextTimers,  \* number of pending setTimeout(executeNext, 0) callbacks
    thrown,             \* task whose exception left the last callback, 0 if none
    resets,             \* number of reset() calls so far
    requestPool,        \* the RequestPool object: _dateTimeSpan, _requestedData, _throttleTimerId
    throttleTimers,     \* live setTimeout(..., 100) timers of the pool: id -> ms elapsed
    deviceData,         \* DataStore._deviceData
    adapterDevices,     \* devices of the device models loaded from the registered adapters
    queries,            \* the closures made by _makeSingleRequest, in creation order
    addLog,             \* the addRequest calls since the last flush, in call order
    sinceAddRequest,    \* ms elapsed since the last addRequest call (capped)
    lastCall,           \* the getAggregatedValues call the last callback was, or null
    flushed,            \* the batch the last callback flushed, or null
    emitted,            \* the queries whose QueryCompleted the last callback emitted
    lastUpdate,         \* the updateCurrentPropertyValue call the last callback was, or null
    dataView,           \* a DataView of the DataStore: _dateTimeSpan
    viewCall,           \* the QueryCompleted event the DataView handled last, or null
    eventHandlers,      \* EventSource._eventHandlers[QueryCompleted] of the DataStore
    lastEmit,           \* the emit call the last callback was, or null
    poolOf              \* the RequestPool that submitted each task of the requestQueue

tqVars == <<taskQueue, tasks, executeNextTimers, thrown, resets>>
storeVars == <<requestPool, throttleTimers, deviceData, adapterDevices, queries,
               addLog, sinceAddRequest, lastCall, flushed, emitted, lastUpdate>>
viewVars == <<dataView, viewCall, eventHandlers, lastEmit>>
poolVars == <<storeVars, viewVars, poolOf>>
vars == <<tqVars, poolVars>>

(***************************************************************************)
(* Bounds of the model.                                                    *)
(***************************************************************************)
MaxTasks == 3
MaxCocurrent == 2
MaxDoneCalls == 2
MaxResets == 1

TaskIds == 1..MaxTasks

(***************************************************************************)
(* TaskQueue                                                               *)
(***************************************************************************)
DefaultCocurrent == 3
WatchdogDelay == 300000

\* What a task does inside the synchronous call task(onFinish):
\*   "async"  returns; done() is called later, several times or never
\*   "sync"   calls done() before it returns
\*   "throws" throws before calling done()
\*   "adds"   calls addTask for another task, of kind "child", and returns;
\*            the child calls done() before it returns
TaskKinds == {"async", "sync", "throws"}

\* A task nobody has submitted yet.
\*   front: the task was added with atBeginning and had to wait
\*   epoch: the number of reset() calls that preceded the addTask call
\*   dispatches: the number of times the loop of executeNext called the task
NoTask == [kind |-> "async", where |-> "none", executed |-> 0,
           watchdog |-> "none", throwTimer |-> FALSE, doneCalls |-> 0,
           front |-> FALSE, epoch |-> 0, dispatches |-> 0]

\* var TaskQueue = function (cocurrent, name, hideProgress)
TaskQueue(cocurrent) ==
    [cocurrent |-> IF cocurrent = 0 THEN DefaultCocurrent ELSE cocurrent,
     onGoingTask |-> 0,
     queue |-> <<>>]

\* The TaskQueue object together with the closures and timers it created:
\*   q      the TaskQueue fields
\*   t      the tasks
\*   timers pending setTimeout(executeNext, 0) callbacks
\*   thrown the task whose exception is propagating, 0 if none
\*   started the tasks dispatched by the current callback, in order
Machine(q, t, timers) ==
    [q |-> q, t |-> t, timers |-> timers, thrown |-> 0, started |-> <<>>]

\* onTaskFinished without the decrement of onGoingTask.
onTaskFinishedNoDecrement(m) == [m EXCEPT !.timers = @ + 1]

\* onTaskFinished without the setTimeout of executeNext.
onTaskFinishedNoTimer(m) ==
    LET n == m.q.onGoingTask - 1
    IN [m EXCEPT !.q.onGoingTask = IF n < 0 THEN 0 ELSE n]

\* TaskQueue.prototype.onTaskFinished
onTaskFinished(m) ==
    LET n == m.q.onGoingTask - 1
    IN [m EXCEPT !.q.onGoingTask = IF n < 0 THEN 0 ELSE n,
                 !.timers = @ + 1]

\* onFinish without the executed flag.
onFinishUnguarded(m, id) == onTaskFinished([m EXCEPT !.t[id].executed = 1])

\* The closure onFinish of one dispatch: the first call releases the slot.
onFinish(m, id) ==
    IF m.t[id].executed = 0
    THEN onTaskFinished([m EXCEPT !.t[id].executed = 1])
    ELSE m

\* The loop condition with an off-by-one comparison.
CanDispatchOffByOne(q) == q.onGoingTask <= q.cocurrent /\ Len(q.queue) > 0

\* The loop condition of executeNext.
CanDispatch(q) == q.onGoingTask < q.cocurrent /\ Len(q.queue) > 0

\* The loop iteration without the count of the slot.
DispatchNoCount(m) ==
    LET id == Head(m.q.queue)
    IN [m EXCEPT !.q.queue = Tail(@),
                 !.t[id].where = "dispatched",
                 !.t[id].executed = 0,
                 !.t[id].watchdog = "armed",
                 !.t[id].dispatches = @ + 1,
                 !.started = Append(@, id)]

\* The loop iteration without the watchdog timer.
DispatchNoWatchdog(m) ==
    LET id == Head(m.q.queue)
    IN [m EXCEPT !.q.queue = Tail(@),
                 !.q.onGoingTask = @ + 1,
                 !.t[id].where = "dispatched",
                 !.t[id].executed = 0,
                 !.t[id].dispatches = @ + 1,
                 !.started = Append(@, id)]

\* One iteration of the loop up to the call task(onFinish): the task leaves
\* the queue, takes a slot, gets a fresh onFinish and its watchdog timer.
Dispatch(m) ==
    LET id == Head(m.q.queue)
    IN [m EXCEPT !.q.queue = Tail(@),
                 !.q.onGoingTask = @ + 1,
                 !.t[id].where = "dispatched",
                 !.t[id].executed = 0,
                 !.t[id].watchdog = "armed",
                 !.t[id].dispatches = @ + 1,
                 !.started = Append(@, id)]

\* The task a running task submits: the first one nobody has submitted
\* yet, 0 if there is none left.
NextNew(t) ==
    IF \E id \in DOMAIN t : t[id].where = "none"
    THEN CHOOSE id \in DOMAIN t :
            /\ t[id].where = "none"
            /\ \A other \in DOMAIN t : t[other].where = "none" => id <= other
    ELSE 0

RECURSIVE executeNext(_)
RECURSIVE addTask(_, _, _)

\* A re-entrant call after which the outer loop goes on with the queue it
\* saw before the call.
reenterStaleQueue(m) ==
    LET child == NextNew(m.t)
        inner == addTask([m EXCEPT !.t[child].kind = "child"], child, FALSE)
    IN IF child = 0 THEN m
       ELSE [inner EXCEPT !.q.queue = Append(m.q.queue, child)]

\* The body of an "adds" task: it calls queue.addTask(child) before it
\* returns, which runs executeNext inside the loop of executeNext.
reenter(m) ==
    LET child == NextNew(m.t)
    IN IF child = 0 THEN m
       ELSE addTask([m EXCEPT !.t[child].kind = "child"], child, FALSE)

\* TaskQueue.prototype.executeNext
executeNext(m) ==
    IF ~CanDispatch(m.q) THEN m
    ELSE LET id == Head(m.q.queue)
             d == Dispatch(m)
         IN CASE m.t[id].kind = "throws" ->
                     \* catch: setTimeout(onFinish, 0); throw ex
                     [d EXCEPT !.t[id].throwTimer = TRUE, !.thrown = id]
              [] m.t[id].kind \in {"sync", "child"} -> executeNext(onFinish(d, id))
              [] m.t[id].kind = "adds" ->
                     \* an exception of the inner loop leaves the task too
                     LET r == reenter(d)
                     IN IF r.thrown # 0 THEN [r EXCEPT !.t[id].throwTimer = TRUE]
                        ELSE executeNext(r)
              [] OTHER -> executeNext(d)

\* addTask ignoring atBeginning.
addTaskAlwaysPush(m, id, atBeginning) ==
    executeNext([m EXCEPT !.t[id].where = "queued", !.q.queue = Append(@, id)])

\* TaskQueue.prototype.addTask
addTask(m, id, atBeginning) ==
    LET queued == [m EXCEPT !.t[id].where = "queued",
                            !.q.queue = IF atBeginning THEN <<id>> \o @
                                        ELSE Append(@, id)]
    IN executeNext(queued)

\* reset() zeroing the counter and leaving the queue as it is.
resetCounterOnly(m) == [m EXCEPT !.q.onGoingTask = 0]

\* TaskQueue.prototype.reset
reset(m) ==
    [m EXCEPT !.q.queue = <<>>,
              !.q.onGoingTask = 0,
              !.t = [id \in DOMAIN m.t |->
                       IF m.t[id].where = "queued"
                       THEN [m.t[id] EXCEPT !.where = "dropped"]
                       ELSE m.t[id]]]

\* The state left behind by a callback that ran on machine m.
Commit(m) ==
    /\ taskQueue' = m.q
    /\ tasks' = m.t
    /\ executeNextTimers' = m.timers
    /\ thrown' = m.thrown

Current == Machine(taskQueue, tasks, executeNextTimers)

\* Tasks that were dispatched and whose done() has not fired yet.
Running(t) == {id \in DOMAIN t : t[id].where = "dispatched" /\ t[id].executed = 0}

(***************************************************************************)
(* Values and numbers of the source used by both specifications.           *)
(***************************************************************************)
\* null and undefined, as records so that they compare with objects.
Null == [null |-> TRUE]
Undefined == [undefined |-> TRUE]

\* new TaskQueue(6, ...), the 100 ms throttle delay, the retry test
\* retryAttempts++ < 4 and the 3000 ms retry delay of the RequestPool.
RequestQueueCocurrent == 6
ThrottleDelay == 100
RetryLimit == 4
RetryDelay == 3000

(***************************************************************************)
(* Actions on a TaskQueue of abstract tasks.                               *)
(***************************************************************************)
InitTQ ==
    /\ \E c \in 0..MaxCocurrent : taskQueue = TaskQueue(c)
    /\ tasks = [id \in TaskIds |-> NoTask]
    /\ executeNextTimers = 0
    /\ thrown = 0
    /\ resets = 0
    /\ requestPool = [dateTimeSpan |-> Null, requestedData |-> <<>>, throttleTimerId |-> 0]
    /\ throttleTimers = <<>>
    /\ deviceData = <<>>
    /\ adapterDevices = {}
    /\ queries = <<>>
    /\ addLog = <<>>
    /\ sinceAddRequest = ThrottleDelay
    /\ lastCall = Null
    /\ flushed = Null
    /\ emitted = <<>>
    /\ lastUpdate = Null
    /\ dataView = [dateTimeSpan |-> Undefined]
    /\ viewCall = Null
    /\ eventHandlers = <<>>
    /\ lastEmit = Null
    /\ poolOf = <<>>

\* A caller submits the next new task.
AddTask ==
    \E id \in TaskIds, kind \in TaskKinds, atBeginning \in BOOLEAN :
        /\ tasks[id].where = "none"
        /\ \A other \in TaskIds : other < id => tasks[other].where # "none"
        /\ LET m == addTask([Current EXCEPT !.t[id].kind = kind,
                                             !.t[id].epoch = resets],
                             id, atBeginning)
           IN Commit([m EXCEPT !.t[id].front =
                            atBeginning /\ m.t[id].where = "queued"])
        /\ UNCHANGED <<resets, poolVars>>

\* A dispatched asynchronous task calls its done().
TaskDone ==
    \E id \in TaskIds :
        /\ tasks[id].where = "dispatched"
        /\ tasks[id].kind \in {"async", "adds"}
        /\ tasks[id].doneCalls < MaxDoneCalls
        /\ Commit(onFinish([Current EXCEPT !.t[id].doneCalls = @ + 1], id))
        /\ UNCHANGED <<resets, poolVars>>

\* The timer armed at dispatch fires: setTimeout(onFinish, 300000).
Watchdog ==
    \E id \in TaskIds :
        /\ tasks[id].watchdog = "armed"
        /\ Commit(onFinish([Current EXCEPT !.t[id].watchdog = "fired"], id))
        /\ UNCHANGED <<resets, poolVars>>

\* The timer armed in the catch block fires: setTimeout(onFinish, 0).
ThrowTimer ==
    \E id \in TaskIds :
        /\ tasks[id].throwTimer
        /\ Commit(onFinish([Current EXCEPT !.t[id].throwTimer = FALSE], id))
        /\ UNCHANGED <<resets, poolVars>>

\* A timer armed by onTaskFinished fires: setTimeout(executeNext, 0).
ExecuteNextTimer ==
    /\ executeNextTimers > 0
    /\ Commit(executeNext([Current EXCEPT !.timers = @ - 1]))
    /\ UNCHANGED <<resets, poolVars>>

\* A caller resets the queue.
Reset ==
    /\ resets < MaxResets
    /\ resets' = resets + 1
    /\ Commit(reset(Current))
    /\ UNCHANGED poolVars

\* A caller submits a task that submits another task while it is dispatched.
AddReentrantTask ==
    \E id \in TaskIds, atBeginning \in BOOLEAN :
        /\ tasks[id].where = "none"
        /\ \A other \in TaskIds : other < id => tasks[other].where # "none"
        /\ LET m == addTask([Current EXCEPT !.t[id].kind = "adds"], id, atBeginning)
           IN Commit([m EXCEPT !.t[id].front =
                            atBeginning /\ m.t[id].where = "queued"])
        /\ UNCHANGED <<resets, poolVars>>

NextTQ ==
    \/ AddTask
    \/ TaskDone
    \/ Watchdog
    \/ ThrowTimer
    \/ ExecuteNextTimer
    \/ Reset

SpecTQ == InitTQ /\ [][NextTQ]_vars

\* The TaskQueue with tasks that re-enter it, without reset().
NextReentry ==
    \/ AddTask
    \/ AddReentrantTask
    \/ TaskDone
    \/ Watchdog
    \/ ThrowTimer
    \/ ExecuteNextTimer

SpecReentry == InitTQ /\ [][NextReentry]_vars

\* The same machine with timers that fire: a callback passed to setTimeout
\* runs once its delay has passed.  Nothing obliges a task to call done()
\* or a caller to submit tasks.
FairSpecTQ ==
    /\ SpecTQ
    /\ WF_vars(Watchdog)
    /\ WF_vars(ThrowTimer)
    /\ WF_vars(ExecuteNextTimer)

(***************************************************************************)
(* DateTimeSpan, QueryParam and the data model                             *)
(***************************************************************************)
MaxAddRequests == 2
MaxFailures == 5
MaxWatchdogs == 1

Devices == {"d1", "d2"}
Props == {"p1", "p2"}

\* class PropertyValue: constructor(timestamp, value)
PropertyValue(timestamp, value) == [timestamp |-> timestamp, value |-> value]

\* The live values the callers of the model push.
CurrentValues == {PropertyValue(1, 20)}

\* A JavaScript string is modelled as the sequence of its characters.
Digit(n) == <<"0", "1", "2", "3", "4", "5", "6", "7", "8", "9">>[n + 1]

RECURSIVE NatToString(_)
NatToString(n) ==
    IF n < 10 THEN <<Digit(n)>> ELSE Append(NatToString(n \div 10), Digit(n % 10))

\* `${n}` for an integer n.
NumberToString(n) == IF n < 0 THEN <<"-">> \o NatToString(-n) ELSE NatToString(n)

\* class DateTimeSpan: constructor(startSecond, endSecond, resolution)
DateTimeSpan(startSecond, endSecond, resolution) ==
    [startSecond |-> startSecond, endSecond |-> endSecond, resolution |-> resolution]

\* hashCode without the separators.
hashCodeNoSeparator(dts) ==
    NumberToString(dts.startSecond) \o NumberToString(dts.endSecond) \o dts.resolution

\* DateTimeSpan.hashCode: `${startSecond}-${endSecond}-${resolution}`
hashCode(dts) ==
    NumberToString(dts.startSecond) \o <<"-">> \o NumberToString(dts.endSecond)
        \o <<"-">> \o dts.resolution

\* The time windows the callers of the model use.
TimeSpans ==
    {DateTimeSpan(0, 60, <<"1", "m">>), DateTimeSpan(60, 120, <<"1", "m">>)}

\* class QueryParam: constructor(dateTimeSpan) copies the three fields;
\* deviceId and propertyIds are set by _beginProcessRequests.
QueryParam(dateTimeSpan, deviceId, propertyIds) ==
    [dateTimeSpan |-> DateTimeSpan(dateTimeSpan.startSecond, dateTimeSpan.endSecond,
                                   dateTimeSpan.resolution),
     deviceId |-> deviceId,
     propertyIds |-> propertyIds]

\* class AggregatedValues: constructor(dateTimeSpan); data stands for the
\* value arrays the adapter stores in it.
AggregatedValues(dateTimeSpan, data) ==
    [dateTimeSpan |-> DateTimeSpan(dateTimeSpan.startSecond, dateTimeSpan.endSecond,
                                   dateTimeSpan.resolution),
     data |-> data]

\* class PropertyData: constructor(propId)
PropertyData ==
    [currentValue |-> Undefined, aggregatedValues |-> <<>>]

\* f with key k set to v (obj[k] = v on a JavaScript object).
Put(f, k, v) == [x \in DOMAIN f \cup {k} |-> IF x = k THEN v ELSE f[x]]

\* f without key k.
Without(f, k) == [x \in DOMAIN f \ {k} |-> f[x]]

\* PropertyData.setAggregatedValues
setAggregatedValues(pd, av) ==
    [pd EXCEPT !.aggregatedValues = Put(@, hashCode(av.dateTimeSpan), av)]

\* PropertyData.getAggregatedValues
getAggregatedValuesOfProperty(pd, dateTimeSpan) ==
    IF hashCode(dateTimeSpan) \in DOMAIN pd.aggregatedValues
    THEN pd.aggregatedValues[hashCode(dateTimeSpan)]
    ELSE Undefined

\* mergeFrom keeping the aggregated values it already has under a key.
mergePropertyDataKeepOld(pd, other) ==
    [currentValue |-> other.currentValue,
     aggregatedValues |->
        [id \in DOMAIN pd.aggregatedValues \cup DOMAIN other.aggregatedValues |->
            IF id \in DOMAIN pd.aggregatedValues
            THEN pd.aggregatedValues[id]
            ELSE other.aggregatedValues[id]]]

\* PropertyData.mergeFrom
mergePropertyData(pd, other) ==
    [currentValue |-> other.currentValue,
     aggregatedValues |->
        [id \in DOMAIN pd.aggregatedValues \cup DOMAIN other.aggregatedValues |->
            IF id \in DOMAIN other.aggregatedValues
            THEN other.aggregatedValues[id]
            ELSE pd.aggregatedValues[id]]]

\* DeviceData.mergeFrom taking the incoming PropertyData as it is.
mergeDeviceDataReplacing(dd, other) ==
    [propId \in DOMAIN dd \cup DOMAIN other |->
        IF propId \in DOMAIN other THEN other[propId] ELSE dd[propId]]

\* DeviceData.mergeFrom; a DeviceData is its _propData: propId -> PropertyData
mergeDeviceData(dd, other) ==
    [propId \in DOMAIN dd \cup DOMAIN other |->
        IF propId \notin DOMAIN other THEN dd[propId]
        ELSE IF propId \in DOMAIN dd THEN mergePropertyData(dd[propId], other[propId])
        ELSE other[propId]]

\* DeviceData.getPropertyData: creates the PropertyData when it is missing.
getPropertyData(dd, propId) ==
    IF propId \in DOMAIN dd THEN dd ELSE Put(dd, propId, PropertyData)

\* DeviceData.updateCurrentPropertyValue creating the PropertyData it misses.
updateCurrentValueOfDeviceCreating(dd, propId, value) ==
    [getPropertyData(dd, propId) EXCEPT ![propId].currentValue = value]

\* DeviceData.updateCurrentPropertyValue
updateCurrentValueOfDevice(dd, propId, value) ==
    IF propId \in DOMAIN dd
    THEN [dd EXCEPT ![propId].currentValue = value]
    ELSE dd

\* DataStore.updateCurrentPropertyValue
updateCurrentPropertyValue(store, deviceId, propertyId, value) ==
    IF deviceId \in DOMAIN store
    THEN [store EXCEPT ![deviceId] = updateCurrentValueOfDevice(@, propertyId, value)]
    ELSE store

\* What a data adapter's fetchDeviceData resolves to (AzureDataAdapter,
\* RestApiDataAdapter): a DeviceData holding, for every queried property,
\* the aggregated values of the query's time span.
AdapterDeviceData(query, data) ==
    [propId \in {query.propertyIds[i] : i \in DOMAIN query.propertyIds} |->
        setAggregatedValues(PropertyData, AggregatedValues(query.dateTimeSpan, data))]

\* The then-callback storing the result in place of the DeviceData it has.
ingestReplacing(store, deviceId, incoming) == Put(store, deviceId, incoming)

\* The then-callback of DataStore.fetchDeviceData: merge or take the result.
ingest(store, deviceId, incoming) ==
    IF deviceId \in DOMAIN store
    THEN [store EXCEPT ![deviceId] = mergeDeviceData(@, incoming)]
    ELSE Put(store, deviceId, incoming)

\* The aggregated values cached for (deviceId, propertyId, dateTimeSpan).
Cached(store, deviceId, propertyId, dateTimeSpan) ==
    IF deviceId \in DOMAIN store /\ propertyId \in DOMAIN store[deviceId]
    THEN getAggregatedValuesOfProperty(store[deviceId][propertyId], dateTimeSpan)
    ELSE Undefined

(***************************************************************************)
(* EventSource, the base class of DataStore and DataView: the handlers of  *)
(* one event type are an array.                                            *)
(***************************************************************************)
MaxHandlers == 3
MaxRegistrations == 3

\* The handler functions of the callers.
Handlers == 1..MaxHandlers

\* What the handlers do when they are called: a handler h in the domain of
\* removes de-registers the handler removes[h], throwers are the handlers
\* that throw.
Behaviour(removes, throwers) == [removes |-> removes, throwers |-> throwers]

\* EventSource.addEventListener
addEventListener(handlers, eventHandler) == Append(handlers, eventHandler)

\* Array.prototype.findIndex: the first index of eventHandler, 0 if none.
findIndex(handlers, eventHandler) ==
    IF \E i \in DOMAIN handlers : handlers[i] = eventHandler
    THEN CHOOSE i \in DOMAIN handlers :
            /\ handlers[i] = eventHandler
            /\ \A j \in DOMAIN handlers : handlers[j] = eventHandler => i <= j
    ELSE 0

\* EventSource.removeEventListener: splice(index, 1) on the array itself.
removeEventListener(handlers, eventHandler) ==
    LET index == findIndex(handlers, eventHandler)
    IN IF index = 0 THEN handlers
       ELSE SubSeq(handlers, 1, index - 1) \o SubSeq(handlers, index + 1, Len(handlers))

\* Array.prototype.forEach from index k on, for an array that had n
\* elements when forEach was called: the callback is called for the indexes
\* below n that the array still has when their turn comes.  d collects
\* the array as the calls leave it, the handlers called and the exception.
RECURSIVE forEach(_, _, _, _)
forEach(d, k, n, behaviour) ==
    IF k > n \/ d.threw THEN d
    ELSE IF k > Len(d.handlers) THEN forEach(d, k + 1, n, behaviour)
    ELSE LET handler == d.handlers[k]
             called == [d EXCEPT
                 !.delivered = Append(@, handler),
                 !.handlers = IF handler \in DOMAIN behaviour.removes
                              THEN removeEventListener(@, behaviour.removes[handler])
                              ELSE @,
                 !.threw = handler \in behaviour.throwers]
         IN forEach(called, k + 1, n, behaviour)

\* EventSource.emit
emit(handlers, behaviour) ==
    forEach([handlers |-> handlers, delivered |-> <<>>, threw |-> FALSE],
            1, Len(handlers), behaviour)

(***************************************************************************)
(* DataView.handleQueryCompleted, the handler a view registers with its    *)
(* DataStore.                                                              *)
(***************************************************************************)
\* class QueryCompletedEventArgs: constructor(query)
QueryCompletedEventArgs(query) == [query |-> query]

\* What a call of handleQueryCompleted did: the events the view emitted to
\* its own listeners and whether the call threw.
Handled(eventArgs, reEmitted, threw) ==
    [eventArgs |-> eventArgs, emitted |-> reEmitted, threw |-> threw]

\* handleQueryCompleted propagating whatever the time window of the event.
handleQueryCompletedAnyWindow(view, eventArgs) ==
    IF view.dateTimeSpan = Undefined
    THEN Handled(eventArgs, <<>>, TRUE)
    ELSE Handled(eventArgs, <<eventArgs>>, FALSE)

\* DataView.handleQueryCompleted.  Reading hashCode of the _dateTimeSpan of
\* a view on which setTimeWindow was never called throws a TypeError.
handleQueryCompleted(view, eventArgs) ==
    IF view.dateTimeSpan = Undefined
    THEN Handled(eventArgs, <<>>, TRUE)
    ELSE IF hashCode(eventArgs.query.dateTimeSpan) = hashCode(view.dateTimeSpan)
         THEN Handled(eventArgs, <<eventArgs>>, FALSE)
         ELSE Handled(eventArgs, <<>>, FALSE)

\* DataView.setTimeWindow
setTimeWindow(view, dateTimeSpan) == [view EXCEPT !.dateTimeSpan = dateTimeSpan]

\* The handler the constructor of a DataView registers.
ViewHandler == "handleQueryCompleted"

(***************************************************************************)
(* RequestPool                                                             *)
(***************************************************************************)
QueryIds == 1..MaxAddRequests

\* The objects a RequestPool callback works on:
\*   p      the RequestPool fields
\*   timers the live throttle timers
\*   store  DataStore._deviceData
\*   known  the devices that have a data adapter
\*   qs     the closures made by _makeSingleRequest
\*   m      the module-level requestQueue with its closures and timers
\*   log    the addRequest calls since the last flush
\*   since  ms elapsed since the last addRequest call
\*   ret    what the callback returns
\*   reqs   the addRequest calls the callback made
\*   ev     the queries whose QueryCompleted the callback emitted
\*   handlers the QueryCompleted handlers of the DataStore
\*   view   the DataView of the DataStore
World ==
    [handlers |-> eventHandlers, view |-> dataView,
     p |-> requestPool, timers |-> throttleTimers, store |-> deviceData,
     known |-> adapterDevices, qs |-> queries,
     m |-> Machine(taskQueue, tasks, executeNextTimers),
     log |-> addLog, since |-> sinceAddRequest,
     ret |-> Undefined, reqs |-> <<>>, ev |-> <<>>]

\* setTimeout returns an id no live timer has.
FreshTimerId(timers) ==
    CHOOSE id \in 1..(Cardinality(DOMAIN timers) + 1) : id \notin DOMAIN timers

\* _startThrottleTimer without the clearTimeout of the running timer.
startThrottleTimerNoClear(w) ==
    LET id == FreshTimerId(w.timers)
    IN [w EXCEPT !.timers = Put(@, id, 0), !.p.throttleTimerId = id]

\* RequestPool._startThrottleTimer
startThrottleTimer(w) ==
    LET cleared == IF w.p.throttleTimerId # 0
                   THEN [w EXCEPT !.timers = Without(@, w.p.throttleTimerId),
                                  !.p.throttleTimerId = 0]
                   ELSE w
        id == FreshTimerId(cleared.timers)
    IN [cleared EXCEPT !.timers = Put(@, id, 0), !.p.throttleTimerId = id]

\* Index of deviceId's entry in _requestedData, 0 if it has none.
EntryOf(requestedData, deviceId) ==
    IF \E i \in DOMAIN requestedData : requestedData[i].deviceId = deviceId
    THEN CHOOSE i \in DOMAIN requestedData : requestedData[i].deviceId = deviceId
    ELSE 0

Includes(seq, x) == \E i \in DOMAIN seq : seq[i] = x

\* addRequest adopting the new time span without dropping the requests.
adoptKeepRequests(p, dateTimeSpan) ==
    IF p.dateTimeSpan = Null \/ hashCode(p.dateTimeSpan) # hashCode(dateTimeSpan)
    THEN [p EXCEPT !.dateTimeSpan = dateTimeSpan]
    ELSE p

\* addRequest taking a time span only when the pool has none.
adoptOnlyFirst(p, dateTimeSpan) ==
    IF p.dateTimeSpan = Null
    THEN [p EXCEPT !.dateTimeSpan = dateTimeSpan, !.requestedData = <<>>]
    ELSE p

\* The first half of addRequest: a request for another time span replaces
\* the time span of the pool and drops what was requested so far.
adoptTimeSpan(p, dateTimeSpan) ==
    IF p.dateTimeSpan = Null \/ hashCode(p.dateTimeSpan) # hashCode(dateTimeSpan)
    THEN [p EXCEPT !.dateTimeSpan = dateTimeSpan, !.requestedData = <<>>]
    ELSE p

\* addRequest without the includes() test.
recordRequestNoDedup(requestedData, deviceId, propertyId) ==
    LET withEntry == IF \E i \in DOMAIN requestedData : requestedData[i].deviceId = deviceId
                     THEN requestedData
                     ELSE Append(requestedData,
                                 [deviceId |-> deviceId, propertyIds |-> <<>>])
        i == CHOOSE i \in DOMAIN withEntry : withEntry[i].deviceId = deviceId
    IN [withEntry EXCEPT ![i].propertyIds = Append(@, propertyId)]

\* The second half of addRequest: record propertyId under deviceId once.
recordRequest(requestedData, deviceId, propertyId) ==
    LET withEntry == IF EntryOf(requestedData, deviceId) = 0
                     THEN Append(requestedData,
                                 [deviceId |-> deviceId, propertyIds |-> <<>>])
                     ELSE requestedData
        i == EntryOf(withEntry, deviceId)
    IN IF Includes(withEntry[i].propertyIds, propertyId)
       THEN withEntry
       ELSE [withEntry EXCEPT ![i].propertyIds = Append(@, propertyId)]

\* RequestPool.addRequest
addRequest(w, deviceId, propertyId, dateTimeSpan) ==
    LET adopted == adoptTimeSpan(w.p, dateTimeSpan)
        recorded == [adopted EXCEPT
                        !.requestedData = recordRequest(@, deviceId, propertyId)]
    IN startThrottleTimer([w EXCEPT !.p = recorded,
                                    !.log = Append(@, <<deviceId, propertyId, dateTimeSpan>>),
                                    !.reqs = Append(@, <<deviceId, propertyId, dateTimeSpan>>),
                                    !.since = 0])

\* The closure of _makeSingleRequest for one query.
\*   phase: "queued"    requestTask waits in requestQueue
\*          "fetching"  the adapter's fetch is outstanding
\*          "resolved"  fetchDeviceData resolved null, reactions not run yet
\*          "retryWait" the retry timer is armed
\*          "completed" the then-callback ran
\*          "rejected"  a handler threw in the then-callback; the
\*                      catch-callback runs next, in the same turn
\*          "dropped"   the fetch failed and no retry was armed
\*   submitted, fetched, emitted count addTask calls, merges into the cache
\*   and QueryCompleted events of this query.
\*   batch: the flush that made the closure, named by its first closure.
Closure(query) ==
    [query |-> query, retryAttempts |-> 0, phase |-> "queued",
     submitted |-> 0, fetched |-> 0, emitted |-> 0, batch |-> 0]

\* The synchronous part of requestTask: DataStore.fetchDeviceData looks up
\* the adapter of the device and resolves null when there is none.
requestTask(w, id) ==
    [w EXCEPT !.qs[id].phase =
        IF w.qs[id].query.deviceId \in w.known THEN "fetching" ELSE "resolved"]

RECURSIVE requestTasks(_, _)
requestTasks(w, started) ==
    IF started = <<>> THEN w
    ELSE requestTasks(requestTask(w, Head(started)), Tail(started))

\* A requestTask that asks for the time span the pool has when the task
\* is submitted.
submitRequestTaskLiveWindow(w, id) ==
    LET queued == [w EXCEPT !.qs[id].phase = "queued", !.qs[id].submitted = @ + 1,
                            !.qs[id].query.dateTimeSpan = w.p.dateTimeSpan]
        m == addTask([queued.m EXCEPT !.started = <<>>], id, FALSE)
    IN requestTasks([queued EXCEPT !.m = m], m.started)

\* requestQueue.addTask(requestTask), with the tasks it dispatches.
submitRequestTask(w, id) ==
    LET queued == [w EXCEPT !.qs[id].phase = "queued", !.qs[id].submitted = @ + 1]
        m == addTask([queued.m EXCEPT !.started = <<>>], id, FALSE)
    IN requestTasks([queued EXCEPT !.m = m], m.started)

\* _makeSingleRequest with one retry counter per query value instead of one
\* per call: a query asked again continues the count of its predecessor.
makeSingleRequestSharedCount(w, query) ==
    LET earlier == {i \in DOMAIN w.qs : w.qs[i].query = query}
        count == IF earlier = {} THEN 0
                 ELSE w.qs[CHOOSE i \in earlier : \A j \in earlier : j <= i].retryAttempts
    IN submitRequestTask([w EXCEPT !.qs = Append(@, [Closure(query) EXCEPT
                                                        !.retryAttempts = count])],
                         Len(w.qs) + 1)

\* RequestPool._makeSingleRequest
makeSingleRequest(w, query) ==
    submitRequestTask([w EXCEPT !.qs = Append(@, Closure(query))], Len(w.qs) + 1)

RECURSIVE makeRequests(_, _)
makeRequests(w, qlist) ==
    IF qlist = <<>> THEN w
    ELSE makeRequests(makeSingleRequest(w, Head(qlist)), Tail(qlist))

\* The queries _beginProcessRequests builds from _requestedData.
queriesOf(p) ==
    [i \in DOMAIN p.requestedData |->
        QueryParam(p.dateTimeSpan, p.requestedData[i].deviceId,
                   p.requestedData[i].propertyIds)]

\* The closures made after the first n get the batch name n + 1.
InBatch(w, n) ==
    [w EXCEPT !.qs = [i \in DOMAIN w.qs |->
                        IF i > n THEN [w.qs[i] EXCEPT !.batch = n + 1] ELSE w.qs[i]]]

\* _beginProcessRequests without clearing the request list.
beginProcessRequestsKeep(w) ==
    InBatch(makeRequests(w, queriesOf(w.p)), Len(w.qs))

\* RequestPool._beginProcessRequests
beginProcessRequests(w) ==
    InBatch(makeRequests([w EXCEPT !.p.requestedData = <<>>], queriesOf(w.p)),
            Len(w.qs))

\* The then-callback emitting one event per property of the query.
emitQueryCompletedPerProperty(w, id) ==
    [w EXCEPT !.qs[id].emitted = @ + Len(w.qs[id].query.propertyIds),
              !.qs[id].phase = "completed",
              !.ev = @ \o [i \in DOMAIN w.qs[id].query.propertyIds |-> id]]

\* The then-callback of requestTask: emit QueryCompleted for the query.
\* The handlers of the DataStore are those of its views; the exception of
\* a handler leaves emit and the then-callback.
emitQueryCompleted(w, id) ==
    LET eventArgs == QueryCompletedEventArgs(w.qs[id].query)
        throwers == IF handleQueryCompleted(w.view, eventArgs).threw
                    THEN {ViewHandler} ELSE {}
        d == emit(w.handlers, Behaviour(<<>>, throwers))
    IN [w EXCEPT !.qs[id].emitted = @ + 1,
                 !.qs[id].phase = IF d.threw THEN "rejected" ELSE "completed",
                 !.ev = Append(@, id)]

\* The catch-callback with the comparison retryAttempts++ <= 4.
catchFailureOffByOne(w, id) ==
    [w EXCEPT !.qs[id].retryAttempts = @ + 1,
              !.qs[id].phase = IF w.qs[id].retryAttempts <= RetryLimit
                               THEN "retryWait" ELSE "dropped"]

\* The catch-callback also notifying the listeners.
catchFailureEmits(w, id) ==
    [w EXCEPT !.qs[id].retryAttempts = @ + 1,
              !.qs[id].phase = IF w.qs[id].retryAttempts < RetryLimit
                               THEN "retryWait" ELSE "dropped",
              !.qs[id].emitted = @ + 1,
              !.ev = Append(@, id)]

\* The catch-callback arming no retry.
catchFailureNoRetry(w, id) ==
    [w EXCEPT !.qs[id].retryAttempts = @ + 1, !.qs[id].phase = "dropped"]

\* The catch-callback of requestTask.
catchFailure(w, id) ==
    [w EXCEPT !.qs[id].retryAttempts = @ + 1,
              !.qs[id].phase = IF w.qs[id].retryAttempts < RetryLimit
                               THEN "retryWait" ELSE "dropped"]

\* The catch-callback is skipped when the then-callback returned.
catchRejection(w, id) ==
    IF w.qs[id].phase = "rejected" THEN catchFailure(w, id) ELSE w

\* A requestTask that does not call finish() when the retries are exhausted.
finishUnlessDropped(w, id) ==
    IF w.qs[id].phase = "dropped" THEN w ELSE [w EXCEPT !.m = onFinish(@, id)]

\* The finally-callback of requestTask: finish().
finish(w, id) == [w EXCEPT !.m = onFinish(@, id)]

\* The reactions of the promises that fetchDeviceData resolved with null
\* during this callback; they run before the next timer or response.
RECURSIVE microtasks(_)
microtasks(w) ==
    LET ready == {id \in DOMAIN w.qs : w.qs[id].phase = "resolved"}
    IN IF ready = {} THEN w
       ELSE LET id == CHOOSE x \in ready : \A y \in ready : x <= y
            IN microtasks(finish(catchRejection(emitQueryCompleted(w, id), id), id))

\* getAggregatedValues requesting the values also on a hit.
getAggregatedValuesAlwaysRequests(w, deviceId, propertyId, dateTimeSpan) ==
    LET looked == IF deviceId \in DOMAIN w.store
                  THEN [w EXCEPT !.store[deviceId] = getPropertyData(@, propertyId)]
                  ELSE w
        av == Cached(looked.store, deviceId, propertyId, dateTimeSpan)
    IN addRequest([looked EXCEPT !.ret = av], deviceId, propertyId, dateTimeSpan)

\* getAggregatedValues creating the DeviceData of a device it does not know.
getAggregatedValuesCreatesDevice(w, deviceId, propertyId, dateTimeSpan) ==
    LET looked == [w EXCEPT !.store =
                      IF deviceId \in DOMAIN w.store
                      THEN [@ EXCEPT ![deviceId] = getPropertyData(@, propertyId)]
                      ELSE Put(@, deviceId, getPropertyData(<<>>, propertyId))]
        av == Cached(looked.store, deviceId, propertyId, dateTimeSpan)
    IN IF av = Undefined
       THEN addRequest([looked EXCEPT !.ret = av], deviceId, propertyId, dateTimeSpan)
       ELSE [looked EXCEPT !.ret = av]

\* DataStore.getAggregatedValues: the cached value, a request on a miss.
getAggregatedValues(w, deviceId, propertyId, dateTimeSpan) ==
    LET looked == IF deviceId \in DOMAIN w.store
                  THEN [w EXCEPT !.store[deviceId] = getPropertyData(@, propertyId)]
                  ELSE w
        av == Cached(looked.store, deviceId, propertyId, dateTimeSpan)
    IN IF av = Undefined
       THEN addRequest([looked EXCEPT !.ret = av], deviceId, propertyId, dateTimeSpan)
       ELSE [looked EXCEPT !.ret = av]

(***************************************************************************)
(* Actions of a DataStore with its RequestPool and the shared requestQueue *)
(***************************************************************************)
Min(a, b) == IF a < b THEN a ELSE b
Max(a, b) == IF a < b THEN b ELSE a

\* The granularity of time in the model: half a quiet period.
TickMs == ThrottleDelay \div 2

\* Number of failed fetches so far.
RECURSIVE Failures(_)
Failures(qs) == IF qs = <<>> THEN 0 ELSE Head(qs).retryAttempts + Failures(Tail(qs))

\* A setTimeout(executeNext, 0) is the next task of the event loop: nothing
\* else runs while one is pending.  The requestQueue of this model never
\* holds a waiting task (fewer than RequestQueueCocurrent queries exist), so
\* the callback finds nothing to dispatch whenever it runs.
NoZeroTimer == executeNextTimers = 0

Init ==
    /\ taskQueue = TaskQueue(RequestQueueCocurrent)
    /\ tasks = [id \in QueryIds |-> NoTask]
    /\ executeNextTimers = 0
    /\ thrown = 0
    /\ resets = 0
    /\ requestPool = [dateTimeSpan |-> Null, requestedData |-> <<>>, throttleTimerId |-> 0]
    /\ throttleTimers = <<>>
    /\ deviceData = <<>>
    /\ adapterDevices = {}
    /\ queries = <<>>
    /\ addLog = <<>>
    /\ sinceAddRequest = ThrottleDelay
    /\ lastCall = Null
    /\ flushed = Null
    /\ emitted = <<>>
    /\ lastUpdate = Null
    /\ dataView = [dateTimeSpan |-> Undefined]
    /\ viewCall = Null
    /\ eventHandlers = <<>>
    /\ lastEmit = Null
    /\ poolOf = <<>>

\* The state left behind by a callback that ran on world w.  (The actions
\* bind w with \E over a one-element set, which makes TLC compute the
\* callback once per step.)
CommitWorld(w) ==
    /\ requestPool' = w.p
    /\ throttleTimers' = w.timers
    /\ deviceData' = w.store
    /\ queries' = w.qs
    /\ addLog' = w.log
    /\ sinceAddRequest' = w.since
    /\ emitted' = w.ev
    /\ Commit(w.m)

\* DataStore.loadDeviceModelsFromAdapters completes: the devices of the
\* loaded device models now have a data adapter.
LoadDeviceModels ==
    /\ NoZeroTimer
    /\ adapterDevices = {}
    /\ adapterDevices' = Devices
    /\ lastCall' = Null
    /\ lastUpdate' = Null
    /\ flushed' = Null
    /\ emitted' = <<>>
    /\ UNCHANGED <<viewVars, poolOf, tqVars, requestPool, throttleTimers, deviceData, queries,
                   addLog, sinceAddRequest>>

\* A caller asks the DataStore for the aggregated values of a property.
GetAggregatedValues ==
    \E deviceId \in Devices, propertyId \in Props, dateTimeSpan \in TimeSpans :
        /\ NoZeroTimer
        /\ Len(queries) + Len(addLog) < MaxAddRequests
        /\ LET w == getAggregatedValues(World, deviceId, propertyId, dateTimeSpan)
           IN /\ CommitWorld(w)
              /\ lastCall' = [deviceId |-> deviceId, propertyId |-> propertyId,
                              dateTimeSpan |-> dateTimeSpan,
                              returned |-> w.ret, requests |-> w.reqs]
        /\ flushed' = Null
        /\ lastUpdate' = Null
        /\ UNCHANGED <<resets, adapterDevices, viewVars, poolOf>>

\* Time passes.
Tick ==
    /\ NoZeroTimer
    /\ \/ sinceAddRequest < ThrottleDelay
       \/ \E id \in DOMAIN throttleTimers : throttleTimers[id] < ThrottleDelay
    /\ sinceAddRequest' = Min(sinceAddRequest + TickMs, ThrottleDelay)
    /\ throttleTimers' = [id \in DOMAIN throttleTimers |->
                            Min(throttleTimers[id] + TickMs, ThrottleDelay)]
    /\ lastCall' = Null
    /\ lastUpdate' = Null
    /\ flushed' = Null
    /\ emitted' = <<>>
    /\ UNCHANGED <<viewVars, poolOf, tqVars, requestPool, deviceData, adapterDevices, queries, addLog>>

\* The timer callback leaving _throttleTimerId as it is.
throttleCallbackKeepsId(w, id) ==
    microtasks(beginProcessRequests([w EXCEPT !.timers = Without(@, id)]))

\* The callback of a throttle timer: the flush.
throttleCallback(w, id) ==
    LET fired == [w EXCEPT !.timers = Without(@, id)]
        cleared == [fired EXCEPT !.timers = Without(@, fired.p.throttleTimerId),
                                 !.p.throttleTimerId = 0]
    IN microtasks(beginProcessRequests(cleared))

\* A throttle timer that has run its delay fires.
ThrottleTimer ==
    \E id \in DOMAIN throttleTimers :
        /\ NoZeroTimer
        /\ throttleTimers[id] >= ThrottleDelay
        /\ \E w \in {throttleCallback(World, id)} :
                CommitWorld([w EXCEPT !.log = <<>>])
        /\ flushed' = [log |-> addLog, requestedData |-> requestPool.requestedData,
                       dateTimeSpan |-> requestPool.dateTimeSpan,
                       first |-> Len(queries) + 1]
        /\ lastCall' = Null
        /\ lastUpdate' = Null
        /\ UNCHANGED <<resets, adapterDevices, viewVars, poolOf>>

\* The fetch of a query storing its result under the time span the pool has
\* when the result arrives.
fetchSucceedsActiveWindow(w, id) ==
    LET query == [w.qs[id].query EXCEPT !.dateTimeSpan = w.p.dateTimeSpan]
        merged == [w EXCEPT !.store = ingest(@, query.deviceId, AdapterDeviceData(query, id)),
                            !.qs[id].fetched = @ + 1]
    IN finish(catchRejection(emitQueryCompleted(merged, id), id), id)

\* The adapter's fetch of a query succeeds: the result is merged into the
\* cache, QueryCompleted is emitted and the task finishes.
fetchSucceeds(w, id) ==
    LET query == w.qs[id].query
        merged == [w EXCEPT !.store = ingest(@, query.deviceId, AdapterDeviceData(query, id)),
                            !.qs[id].fetched = @ + 1]
    IN finish(catchRejection(emitQueryCompleted(merged, id), id), id)

FetchSucceeds ==
    \E id \in DOMAIN queries :
        /\ NoZeroTimer
        /\ queries[id].phase = "fetching"
        /\ \E w \in {fetchSucceeds(World, id)} : CommitWorld(w)
        /\ lastCall' = Null
        /\ lastUpdate' = Null
        /\ flushed' = Null
        /\ UNCHANGED <<resets, adapterDevices, viewVars, poolOf>>

\* A requestTask that calls finish() only when it arms no retry.
fetchFailsHoldsSlot(w, id) ==
    LET caught == catchFailure(w, id)
    IN IF caught.qs[id].phase = "retryWait" THEN caught ELSE finish(caught, id)

\* The adapter's fetch of a query fails: a retry is armed or the query is
\* dropped, and the task finishes.
fetchFails(w, id) == finish(catchFailure(w, id), id)

FetchFails ==
    \E id \in DOMAIN queries :
        /\ NoZeroTimer
        /\ queries[id].phase = "fetching"
        /\ Failures(queries) < MaxFailures
        /\ \E w \in {fetchFails(World, id)} : CommitWorld(w)
        /\ lastCall' = Null
        /\ lastUpdate' = Null
        /\ flushed' = Null
        /\ UNCHANGED <<resets, adapterDevices, viewVars, poolOf>>

\* The retry timer of a query fires: setTimeout(() => addTask(requestTask), 3000).
RetryTimer ==
    \E id \in DOMAIN queries :
        /\ NoZeroTimer
        /\ queries[id].phase = "retryWait"
        /\ \E w \in {microtasks(submitRequestTask(World, id))} : CommitWorld(w)
        /\ lastCall' = Null
        /\ lastUpdate' = Null
        /\ flushed' = Null
        /\ UNCHANGED <<resets, adapterDevices, viewVars, poolOf>>

\* The watchdog of a fetch task that has not finished fires.  (The watchdog
\* of a finished dispatch finds executed = 1 and changes nothing.)
RequestWatchdog ==
    \E id \in DOMAIN queries :
        /\ NoZeroTimer
        /\ tasks[id].watchdog = "armed"
        /\ tasks[id].where = "dispatched"
        /\ tasks[id].executed = 0
        /\ Cardinality({t \in DOMAIN tasks : tasks[t].watchdog = "fired"}) < MaxWatchdogs
        /\ \E w \in {finish([World EXCEPT !.m.t[id].watchdog = "fired"], id)} :
                CommitWorld(w)
        /\ lastCall' = Null
        /\ lastUpdate' = Null
        /\ flushed' = Null
        /\ UNCHANGED <<resets, adapterDevices, viewVars, poolOf>>

\* A setTimeout(executeNext, 0) of the requestQueue fires.
RequestExecuteNextTimer ==
    /\ executeNextTimers > 0
    /\ \E m \in {executeNext([World.m EXCEPT !.timers = @ - 1])} :
        \E w \in {microtasks(requestTasks([World EXCEPT !.m = m], m.started))} :
            CommitWorld(w)
    /\ lastCall' = Null
    /\ lastUpdate' = Null
    /\ flushed' = Null
    /\ UNCHANGED <<resets, adapterDevices, viewVars, poolOf>>

\* A caller pushes the live value of a property into the DataStore.
UpdateCurrentPropertyValue ==
    \E deviceId \in Devices, propertyId \in Props, value \in CurrentValues :
        /\ NoZeroTimer
        /\ deviceData' = updateCurrentPropertyValue(deviceData, deviceId, propertyId, value)
        /\ lastUpdate' = [deviceId |-> deviceId, propertyId |-> propertyId,
                          value |-> value]
        /\ lastCall' = Null
        /\ flushed' = Null
        /\ emitted' = <<>>
        /\ UNCHANGED <<viewVars, poolOf, tqVars, requestPool, throttleTimers, adapterDevices, queries,
                       addLog, sinceAddRequest>>

Next ==
    \/ LoadDeviceModels
    \/ GetAggregatedValues
    \/ Tick
    \/ ThrottleTimer
    \/ FetchSucceeds
    \/ FetchFails
    \/ RetryTimer
    \/ RequestWatchdog
    \/ RequestExecuteNextTimer
    \/ UpdateCurrentPropertyValue

Spec == Init /\ [][Next]_vars

\* Callers that ask for one property and one window only: the life of a
\* query depends on neither.
OneTriple ==
    /\ lastCall'.propertyId = "p1"
    /\ lastCall'.dateTimeSpan = DateTimeSpan(0, 60, <<"1", "m">>)

\* Next without the pushes of current values, which touch no query.
NextFetch ==
    \/ LoadDeviceModels
    \/ GetAggregatedValues /\ OneTriple
    \/ Tick
    \/ ThrottleTimer
    \/ FetchSucceeds
    \/ FetchFails
    \/ RetryTimer
    \/ RequestWatchdog
    \/ RequestExecuteNextTimer

\* Spec with the scheduling of the event loop: a timer that is due is run
\* (the 3000 ms retry timers, the zero-delay executeNext timers), and the
\* assumption that every fetch settles, one way or the other.
FairSpec ==
    /\ Init /\ [][NextFetch]_vars
    /\ WF_vars(FetchSucceeds \/ FetchFails)
    /\ WF_vars(RetryTimer)
    /\ WF_vars(RequestExecuteNextTimer)


\* DataStore.createView: the constructor of the DataView registers its
\* handler with the DataStore; no time window is set.
CreateView ==
    /\ NoZeroTimer
    /\ eventHandlers = <<>>
    /\ eventHandlers' = addEventListener(eventHandlers, ViewHandler)
    /\ dataView' = [dateTimeSpan |-> Undefined]
    /\ lastCall' = Null
    /\ lastUpdate' = Null
    /\ flushed' = Null
    /\ emitted' = <<>>
    /\ UNCHANGED <<tqVars, requestPool, throttleTimers, deviceData, adapterDevices,
                   queries, addLog, sinceAddRequest, viewCall, lastEmit, poolOf>>

\* A caller sets the time window of the view of the DataStore.
SetViewTimeWindow ==
    \E dateTimeSpan \in TimeSpans :
        /\ NoZeroTimer
        /\ eventHandlers # <<>>
        /\ dataView' = setTimeWindow(dataView, dateTimeSpan)
        /\ lastCall' = Null
        /\ lastUpdate' = Null
        /\ flushed' = Null
        /\ emitted' = <<>>
        /\ UNCHANGED <<tqVars, requestPool, throttleTimers, deviceData, adapterDevices,
                       queries, addLog, sinceAddRequest, viewCall, eventHandlers,
                       lastEmit, poolOf>>

\* The DataStore with a DataView listening to its QueryCompleted events.
NextListener ==
    \/ NextFetch
    \/ CreateView
    \/ SetViewTimeWindow

SpecListener == Init /\ [][NextListener]_vars

(***************************************************************************)
(* A RequestPool with more queries than the requestQueue has slots: the    *)
(* flushes of SpecRetry submit up to MaxRetryTasks queries for one device, *)
(* and at most MaxRetries fetches fail.                                    *)
(***************************************************************************)
MaxRetryTasks == 8
MaxRetries == 2

RetryTaskIds == 1..MaxRetryTasks

InitRetry ==
    /\ taskQueue = TaskQueue(RequestQueueCocurrent)
    /\ tasks = [id \in RetryTaskIds |-> NoTask]
    /\ executeNextTimers = 0
    /\ thrown = 0
    /\ resets = 0
    /\ requestPool = [dateTimeSpan |-> Null, requestedData |-> <<>>, throttleTimerId |-> 0]
    /\ throttleTimers = <<>>
    /\ deviceData = <<>>
    /\ adapterDevices = {}
    /\ queries = <<>>
    /\ addLog = <<>>
    /\ sinceAddRequest = ThrottleDelay
    /\ lastCall = Null
    /\ flushed = Null
    /\ emitted = <<>>
    /\ lastUpdate = Null
    /\ dataView = [dateTimeSpan |-> Undefined]
    /\ viewCall = Null
    /\ eventHandlers = <<>>
    /\ lastEmit = Null
    /\ poolOf = <<>>

\* A flush makes the next query: _makeSingleRequest(query).
MakeSingleRequest ==
    /\ NoZeroTimer
    /\ adapterDevices # {}
    /\ Len(queries) < MaxRetryTasks
    /\ \E w \in {microtasks(makeSingleRequest(World,
                QueryParam(DateTimeSpan(0, 60, <<"1", "m">>), "d1", <<"p1">>)))} :
            CommitWorld(w)
    /\ lastCall' = Null
    /\ lastUpdate' = Null
    /\ flushed' = Null
    /\ UNCHANGED <<resets, adapterDevices, viewVars, poolOf>>

NextRetry ==
    \/ LoadDeviceModels
    \/ MakeSingleRequest
    \/ FetchSucceeds
    \/ FetchFails /\ Failures(queries) < MaxRetries
    \/ RetryTimer
    \/ RequestExecuteNextTimer

SpecRetry == InitRetry /\ [][NextRetry]_vars

(***************************************************************************)
(* EventSource: the base class of DataStore and DataView.  The handlers of *)
(* one event type are an array; SpecEvents is the EventSource alone, with  *)
(* handlers of its callers that may remove a handler when they are called. *)
(***************************************************************************)
InitEvents == Init

\* A caller registers a handler.
AddEventListener ==
    \E eventHandler \in Handlers :
        /\ Len(eventHandlers) < MaxRegistrations
        /\ eventHandlers' = addEventListener(eventHandlers, eventHandler)
        /\ lastEmit' = Null
        /\ UNCHANGED <<tqVars, storeVars, poolOf, dataView, viewCall>>

\* A caller de-registers a handler, outside of a delivery.
RemoveEventListener ==
    \E eventHandler \in Handlers :
        /\ eventHandlers' = removeEventListener(eventHandlers, eventHandler)
        /\ lastEmit' = Null
        /\ UNCHANGED <<tqVars, storeVars, poolOf, dataView, viewCall>>

\* The EventSource emits an event; one of the handlers may de-register
\* a handler, itself or another one, when it is called.
Emit ==
    \E removers \in {{}} \cup {{h} : h \in Handlers}, removed \in Handlers :
        LET behaviour == Behaviour([h \in removers |-> removed], {})
            d == emit(eventHandlers, behaviour)
        IN /\ eventHandlers' = d.handlers
           /\ lastEmit' = [handlers |-> eventHandlers, delivered |-> d.delivered,
                           threw |-> d.threw]
           /\ UNCHANGED <<tqVars, storeVars, poolOf, dataView, viewCall>>

NextEvents ==
    \/ AddEventListener
    \/ RemoveEventListener
    \/ Emit

SpecEvents == InitEvents /\ [][NextEvents]_vars

(***************************************************************************)
(* DataView: a view created by DataStore.createView, which registers       *)
(* handleQueryCompleted for the QueryCompleted events of its DataStore.    *)
(* SpecView is the view alone: its callers set the time window, and the    *)
(* DataStore delivers the events of whatever queries complete.             *)
(***************************************************************************)
\* The seconds and the resolution strings of the time windows of SpecView:
\* negative numbers, numbers of two digits, resolutions that are empty or
\* contain the separator of hashCode.
ViewSeconds == {-1, 0, 1, 11}
ViewResolutions == {<<"1", "m">>, <<>>, <<"-", "1">>, <<"1", "-", "1", "m">>}
ViewTimeSpans ==
    {DateTimeSpan(startSecond, endSecond, resolution) :
        startSecond \in ViewSeconds, endSecond \in ViewSeconds,
        resolution \in ViewResolutions}

\* The view of a DataStore that has done nothing yet; no window is set.
InitView == Init

\* A caller sets the time window of the view.
SetTimeWindow ==
    \E dateTimeSpan \in ViewTimeSpans :
        /\ dataView' = setTimeWindow(dataView, dateTimeSpan)
        /\ viewCall' = Null
        /\ UNCHANGED <<tqVars, storeVars, poolOf, eventHandlers, lastEmit>>

\* The DataStore emits QueryCompleted for a query: EventSource.emit calls
\* the handler the view registered.
HandleQueryCompleted ==
    \E dateTimeSpan \in ViewTimeSpans, deviceId \in Devices :
        /\ viewCall' = handleQueryCompleted(dataView,
                QueryCompletedEventArgs(QueryParam(dateTimeSpan, deviceId, <<"p1">>)))
        /\ UNCHANGED <<tqVars, storeVars, poolOf, dataView, eventHandlers, lastEmit>>

NextView ==
    \/ SetTimeWindow
    \/ HandleQueryCompleted

SpecView == InitView /\ [][NextView]_vars

(***************************************************************************)
(* The requestQueue with the RequestPools of several DataStores.           *)
(* requestQueue is a constant of the module Hyperion.Data.RequestPool.js,  *)
(* made once when the module is loaded: every RequestPool of the process   *)
(* submits its requestTasks to it.  SpecShared looks at the pools from the *)
(* side of the queue: a pool submits a task (at a flush or when a retry    *)
(* timer fires), the fetch of a dispatched task settles, timers fire.      *)
(***************************************************************************)
MaxRequestTasks == 7
MaxPools == 2

RequestTaskIds == 1..MaxRequestTasks
Pools == 1..MaxPools

InitShared ==
    /\ taskQueue = TaskQueue(RequestQueueCocurrent)
    /\ tasks = [id \in RequestTaskIds |-> NoTask]
    /\ executeNextTimers = 0
    /\ thrown = 0
    /\ resets = 0
    /\ requestPool = [dateTimeSpan |-> Null, requestedData |-> <<>>, throttleTimerId |-> 0]
    /\ throttleTimers = <<>>
    /\ deviceData = <<>>
    /\ adapterDevices = {}
    /\ queries = <<>>
    /\ addLog = <<>>
    /\ sinceAddRequest = ThrottleDelay
    /\ lastCall = Null
    /\ flushed = Null
    /\ emitted = <<>>
    /\ lastUpdate = Null
    /\ dataView = [dateTimeSpan |-> Undefined]
    /\ viewCall = Null
    /\ eventHandlers = <<>>
    /\ lastEmit = Null
    /\ poolOf = <<>>

\* A RequestPool calls requestQueue.addTask(requestTask).  requestTask
\* starts the fetch and returns; finish() is called when the fetch settles.
PoolSubmits ==
    \E pool \in Pools :
        /\ Len(poolOf) < MaxRequestTasks
        /\ Commit(addTask(Current, Len(poolOf) + 1, FALSE))
        /\ poolOf' = Append(poolOf, pool)
        /\ UNCHANGED <<resets, storeVars, viewVars>>

\* The fetch of a dispatched task settles: the finally-callback calls finish().
FetchSettles ==
    \E id \in DOMAIN poolOf :
        /\ tasks[id].where = "dispatched"
        /\ tasks[id].doneCalls = 0
        /\ Commit(onFinish([Current EXCEPT !.t[id].doneCalls = 1], id))
        /\ UNCHANGED <<resets, storeVars, viewVars, poolOf>>

\* The watchdog of a task whose fetch has not settled fires.  (The watchdog
\* of a task that has finished finds executed = 1 and changes nothing.)
SharedWatchdog ==
    \E id \in DOMAIN poolOf :
        /\ tasks[id].watchdog = "armed"
        /\ tasks[id].where = "dispatched"
        /\ tasks[id].executed = 0
        /\ Cardinality({t \in DOMAIN tasks : tasks[t].watchdog = "fired"}) < MaxWatchdogs
        /\ Commit(onFinish([Current EXCEPT !.t[id].watchdog = "fired"], id))
        /\ UNCHANGED <<resets, storeVars, viewVars, poolOf>>

\* A setTimeout(executeNext, 0) of the requestQueue fires.
SharedExecuteNextTimer ==
    /\ executeNextTimers > 0
    /\ Commit(executeNext([Current EXCEPT !.timers = @ - 1]))
    /\ UNCHANGED <<resets, storeVars, viewVars, poolOf>>

NextShared ==
    \/ PoolSubmits
    \/ FetchSettles
    \/ SharedWatchdog
    \/ SharedExecuteNextTimer

SpecShared == InitShared /\ [][NextShared]_vars

(***************************************************************************)
(* Claims about the TaskQueue, checked under SpecTQ.                       *)
(***************************************************************************)

\* C1: as long as reset() has not been called, the tasks that were dispatched
\* and whose done() has not fired yet never number more than cocurrent.
C1_AtMostN ==
    resets = 0 => Cardinality(Running(tasks)) <= taskQueue.cocurrent

\* C1 witness: a slot was released by the watchdog and taken again, all
\* slots are taken and a task waits in the queue behind them.
C1_Witness ==
    /\ resets = 0
    /\ Cardinality(Running(tasks)) = taskQueue.cocurrent
    /\ Len(taskQueue.queue) > 0
    /\ \E id \in TaskIds : tasks[id].watchdog = "fired" /\ tasks[id].executed = 1

(***************************************************************************)
(* Claims about the RequestPool and the DataStore, checked under Spec.     *)
(***************************************************************************)
RangeOf(seq) == {seq[i] : i \in DOMAIN seq}

\* The closures made by the flush that just ran, in creation order.
FlushedClosures ==
    IF flushed = Null THEN <<>>
    ELSE [i \in 1..(Len(queries) - flushed.first + 1) |-> queries[flushed.first + i - 1]]

\* How often the flush that just ran asks for propertyId of deviceId under
\* the key of dateTimeSpan, counted over all its queries.
Occurrences(deviceId, propertyId, dateTimeSpan) ==
    Cardinality({ij \in (DOMAIN FlushedClosures) \X (1..(Cardinality(Props) * MaxAddRequests)) :
        LET query == FlushedClosures[ij[1]].query
        IN /\ ij[2] \in DOMAIN query.propertyIds
           /\ query.deviceId = deviceId
           /\ query.propertyIds[ij[2]] = propertyId
           /\ hashCode(query.dateTimeSpan) = hashCode(dateTimeSpan)})

\* Call k of the log was made for the time span that is active at the end
\* of the log: no later call of the log has another key.
StillWanted(log, k) ==
    \A j \in DOMAIN log : j > k => hashCode(log[j][3]) = hashCode(log[k][3])

\* C2 as stated: every triple requested between two flushes appears exactly
\* once in the queries of the next flush.
C2_Original ==
    flushed # Null =>
        \A k \in DOMAIN flushed.log :
            Occurrences(flushed.log[k][1], flushed.log[k][2], flushed.log[k][3]) = 1

\* C2 amended: a triple requested N >= 1 times between two flushes appears
\* exactly once in the queries of the next flush when no request for another
\* time span followed its last request, and not at all otherwise.
C2_OnceIfStillWanted ==
    flushed # Null =>
        \A k \in DOMAIN flushed.log :
            Occurrences(flushed.log[k][1], flushed.log[k][2], flushed.log[k][3]) =
                IF \E i \in DOMAIN flushed.log :
                        flushed.log[i] = flushed.log[k] /\ StillWanted(flushed.log, i)
                THEN 1 ELSE 0

\* C2 witness: a flush of a batch in which the same triple was requested
\* twice, with that triple in exactly one query.
C2_Witness ==
    /\ flushed # Null
    /\ \E i, k \in DOMAIN flushed.log :
        /\ i < k
        /\ flushed.log[i] = flushed.log[k]
        /\ Occurrences(flushed.log[k][1], flushed.log[k][2], flushed.log[k][3]) = 1

\* C3: an addRequest for a time span whose key differs from the active one,
\* made while requests are pending, leaves exactly the pair of that call
\* pending and makes its time span the active one.
C3_WindowChangeDiscards ==
    [][(/\ lastCall' # Null
        /\ lastCall'.requests # <<>>
        /\ requestPool.dateTimeSpan # Null
        /\ requestPool.requestedData # <<>>
        /\ hashCode(requestPool.dateTimeSpan) # hashCode(lastCall'.dateTimeSpan))
       => (/\ requestPool'.dateTimeSpan = lastCall'.dateTimeSpan
           /\ requestPool'.requestedData =
                <<[deviceId |-> lastCall'.deviceId,
                   propertyIds |-> <<lastCall'.propertyId>>]>>)]_vars

\* C3 witness: the call just made changed the time span while a request for
\* the old one was pending, and only its own pair is pending now.
C3_Witness ==
    /\ lastCall # Null
    /\ lastCall.requests # <<>>
    /\ Len(addLog) >= 2
    /\ hashCode(addLog[Len(addLog) - 1][3]) # hashCode(lastCall.dateTimeSpan)
    /\ requestPool.dateTimeSpan = lastCall.dateTimeSpan
    /\ requestPool.requestedData =
            <<[deviceId |-> lastCall.deviceId, propertyIds |-> <<lastCall.propertyId>>]>>

\* C4: every pair of every query a flush submits was requested, for the time
\* span the query carries, after the last change of the active time span.
C4_OnlyLiveRequestsFetched ==
    flushed # Null =>
        \A c \in RangeOf(FlushedClosures) :
            \A propertyId \in RangeOf(c.query.propertyIds) :
                \E k \in DOMAIN flushed.log :
                    /\ flushed.log[k][1] = c.query.deviceId
                    /\ flushed.log[k][2] = propertyId
                    /\ hashCode(flushed.log[k][3]) = hashCode(c.query.dateTimeSpan)
                    /\ StillWanted(flushed.log, k)

\* C4 witness: a flush after the time span changed within the batch; the
\* pair requested under the abandoned time span is in none of its queries.
C4_Witness ==
    /\ flushed # Null
    /\ FlushedClosures # <<>>
    /\ \E k \in DOMAIN flushed.log :
        /\ ~StillWanted(flushed.log, k)
        /\ \A c \in RangeOf(FlushedClosures) :
            \/ c.query.deviceId # flushed.log[k][1]
            \/ flushed.log[k][2] \notin RangeOf(c.query.propertyIds)

\* C5: at most one throttle timer is live; an addRequest leaves exactly one,
\* freshly started; and a flush runs only a full quiet period after the last
\* addRequest.
C5_Debounce ==
    /\ Cardinality(DOMAIN throttleTimers) <= 1
    /\ (lastCall # Null /\ lastCall.requests # <<>>) =>
            /\ DOMAIN throttleTimers = {requestPool.throttleTimerId}
            /\ throttleTimers[requestPool.throttleTimerId] = 0
    /\ flushed # Null => sinceAddRequest >= ThrottleDelay

\* C5 witness: a flush of a batch whose timer was restarted by a second
\* request, a full quiet period after that request.
C5_Witness ==
    /\ flushed # Null
    /\ Len(flushed.log) >= 2
    /\ sinceAddRequest = ThrottleDelay
    /\ throttleTimers = <<>>

\* C6: a flush makes one query per device of the pending set, each with the
\* device's whole property list and the active time span, submits one fetch
\* task per query and leaves the pending set empty.
C6_Flush ==
    flushed # Null =>
        /\ Len(FlushedClosures) = Len(flushed.requestedData)
        /\ \A i \in DOMAIN FlushedClosures :
            /\ FlushedClosures[i].query.deviceId = flushed.requestedData[i].deviceId
            /\ FlushedClosures[i].query.propertyIds = flushed.requestedData[i].propertyIds
            /\ FlushedClosures[i].query.dateTimeSpan = flushed.dateTimeSpan
            /\ FlushedClosures[i].submitted = 1
        /\ \A i, j \in DOMAIN FlushedClosures :
            i # j => FlushedClosures[i].query.deviceId # FlushedClosures[j].query.deviceId
        /\ requestPool.requestedData = <<>>

\* C6 witness: a flush of a pending set with two devices.
C6_Witness ==
    /\ flushed # Null
    /\ Len(flushed.requestedData) = 2
    /\ Len(FlushedClosures) = 2

\* C7: a query whose every fetch failed was submitted once plus once per
\* failure while its retry count was below 4: a dropped query has failed 5
\* times and was re-submitted exactly 4 times.
C7_FourRetries ==
    \A c \in RangeOf(queries) :
        /\ c.submitted <= 5
        /\ c.phase = "dropped" => c.retryAttempts = 5 /\ c.submitted = 1 + 4
        /\ c.phase = "retryWait" => c.retryAttempts <= 4 /\ c.submitted = c.retryAttempts
        /\ c.phase = "fetching" => c.retryAttempts <= 4 /\ c.submitted = 1 + c.retryAttempts

\* C7 witness: a query was dropped after its retries.
C7_Witness ==
    \E c \in RangeOf(queries) : c.phase = "dropped" /\ c.submitted = 5

\* C8: a step in which a fetch of a query fails changes nothing in the cache
\* and emits nothing, and a query dropped after every one of its fetches
\* failed has emitted nothing.
C8_FailureLeavesCache ==
    /\ [](\A c \in RangeOf(queries) :
            (c.phase = "dropped" /\ c.fetched = 0) => c.emitted = 0)
    /\ [][(\E id \in DOMAIN queries :
                /\ queries'[id].retryAttempts > queries[id].retryAttempts
                /\ queries'[id].fetched = queries[id].fetched)
          => deviceData' = deviceData /\ emitted' = <<>>]_vars

\* C8 witness: a dropped query with none of its keys in the cache.
C8_Witness ==
    \E c \in RangeOf(queries) :
        /\ c.phase = "dropped"
        /\ c.fetched = 0
        /\ c.emitted = 0
        /\ \A propertyId \in RangeOf(c.query.propertyIds) :
            Cached(deviceData, c.query.deviceId, propertyId, c.query.dateTimeSpan) = Undefined

\* C9: getAggregatedValues returns the cached values and requests nothing on
\* a hit; on a miss it returns undefined and makes one addRequest call with
\* its own arguments.
C9_HitOrRequest ==
    lastCall # Null =>
        LET av == Cached(deviceData, lastCall.deviceId, lastCall.propertyId,
                         lastCall.dateTimeSpan)
        IN /\ lastCall.returned = av
           /\ lastCall.requests =
                IF av = Undefined
                THEN <<<<lastCall.deviceId, lastCall.propertyId, lastCall.dateTimeSpan>>>>
                ELSE <<>>

\* C9 witness: a hit.
C9_Witness ==
    /\ lastCall # Null
    /\ lastCall.returned # Undefined
    /\ lastCall.requests = <<>>

\* C10 as stated: when QueryCompleted is emitted for a query, the cache holds
\* aggregated values under the query's time span for each of its properties.
C10_EventImpliesCached ==
    \A id \in RangeOf(emitted) :
        \A propertyId \in RangeOf(queries[id].query.propertyIds) :
            Cached(deviceData, queries[id].query.deviceId, propertyId,
                   queries[id].query.dateTimeSpan) # Undefined

\* The queries whose fetch result the last callback merged into the cache.
Ingested == {id \in RangeOf(emitted) : queries[id].fetched > 0}

\* C11: after the fetch result of a query is ingested, the cache holds under
\* each of the query's keys the aggregated values of that result, also when
\* an earlier result was stored under the same key: the later ingest
\* replaces the earlier one.
C11_LaterIngestReplaces ==
    \A id \in Ingested :
        \A propertyId \in RangeOf(queries[id].query.propertyIds) :
            Cached(deviceData, queries[id].query.deviceId, propertyId,
                   queries[id].query.dateTimeSpan)
                = AggregatedValues(queries[id].query.dateTimeSpan, id)

\* C11 witness: the result just ingested replaced the result of another
\* query for the same device, property and time span.
C11_Witness ==
    \E id \in Ingested, other \in DOMAIN queries :
        /\ other # id
        /\ queries[other].fetched > 0
        /\ queries[other].query = queries[id].query
        /\ Cached(deviceData, queries[id].query.deviceId,
                  queries[id].query.propertyIds[1], queries[id].query.dateTimeSpan)
                = AggregatedValues(queries[id].query.dateTimeSpan, id)

(***************************************************************************)
(* More claims about the TaskQueue, checked under SpecTQ.                  *)
(***************************************************************************)
\* This step is an invocation of the onFinish of task id: by the task, by
\* the watchdog timer or by the timer of the catch block.
DoneInvoked(id) ==
    \/ tasks'[id].doneCalls > tasks[id].doneCalls
    \/ tasks[id].watchdog = "armed" /\ tasks'[id].watchdog = "fired"
    \/ tasks[id].throwTimer /\ ~tasks'[id].throwTimer

Submitted == {id \in TaskIds : tasks[id].where # "none"}
Dispatched == {id \in TaskIds : tasks[id].where = "dispatched"}
Finished == {id \in Dispatched : tasks[id].executed = 1}

\* Only addTask calls have run so far: no done() from outside a dispatch, no
\* timer callback and no reset().
OneTurn ==
    /\ resets = 0
    /\ executeNextTimers = Cardinality(Finished)
    /\ \A id \in TaskIds :
        /\ tasks[id].doneCalls = 0
        /\ tasks[id].watchdog # "fired"
        /\ (tasks[id].where = "dispatched" /\ tasks[id].kind = "throws")
                => tasks[id].throwTimer

\* C14 as stated: k tasks submitted in one turn to an idle queue leave
\* min(k, N) dispatched and max(0, k - N) queued.
C14_Original ==
    OneTurn =>
        /\ Cardinality(Dispatched) = Min(Cardinality(Submitted), taskQueue.cocurrent)
        /\ Len(taskQueue.queue) + taskQueue.cocurrent
                = Max(taskQueue.cocurrent, Cardinality(Submitted))

\* C14 amended: k tasks submitted in one turn, none of which has called
\* done() yet, leave min(k, N) dispatched and max(0, k - N) queued; and
\* without reset(), with c tasks finished and T scheduled executeNext calls
\* still to run, between min(k, N + c - T) and min(k, N + c) tasks were
\* dispatched: once its executeNext has run, each completion has led to
\* the dispatch of exactly one more queued task.
C14_OneMorePerCompletion ==
    /\ (OneTurn /\ Finished = {}) =>
        /\ Cardinality(Dispatched) = Min(Cardinality(Submitted), taskQueue.cocurrent)
        /\ Len(taskQueue.queue) + taskQueue.cocurrent
                = Max(taskQueue.cocurrent, Cardinality(Submitted))
    /\ resets = 0 =>
        /\ Cardinality(Dispatched) <=
                Min(Cardinality(Submitted), taskQueue.cocurrent + Cardinality(Finished))
        /\ Cardinality(Dispatched) >=
                Min(Cardinality(Submitted),
                    taskQueue.cocurrent + Cardinality(Finished) - executeNextTimers)

\* C14 witness: one slot, three tasks; the first finished, its executeNext
\* ran and dispatched exactly one of the two queued tasks.
C14_Witness ==
    /\ resets = 0
    /\ executeNextTimers = 0
    /\ taskQueue.cocurrent = 1
    /\ Cardinality(Submitted) = 3
    /\ Cardinality(Finished) = 1
    /\ Cardinality(Dispatched) = 2
    /\ Len(taskQueue.queue) = 1

\* C15 as stated: when a task throws while it is dispatched, the exception
\* leaves the addTask call that submitted that task, and the slot is still
\* taken when the call is left: the timer of the catch block releases it.
C15_ThrowReachesSubmitter ==
    [][thrown' # 0 =>
        /\ tasks[thrown'].where = "none"
        /\ tasks'[thrown'].where = "dispatched"
        /\ tasks'[thrown'].executed = 0
        /\ tasks'[thrown'].throwTimer]_vars

\* C16: reset() leaves the queue empty and the in-flight counter at 0 and
\* touches neither the dispatched tasks (their onFinish closures and
\* watchdog timers stay as they are) nor the scheduled executeNext calls;
\* a task that was queued when reset() ran is never dispatched.
C16_Reset ==
    [][/\ resets' > resets =>
            /\ taskQueue'.queue = <<>>
            /\ taskQueue'.onGoingTask = 0
            /\ taskQueue'.cocurrent = taskQueue.cocurrent
            /\ executeNextTimers' = executeNextTimers
            /\ \A id \in TaskIds :
                /\ tasks[id].where = "dispatched" => tasks'[id] = tasks[id]
                /\ tasks[id].where = "queued" => tasks'[id].where = "dropped"
       /\ \A id \in TaskIds :
            tasks[id].where = "dropped" => tasks'[id].where = "dropped"]_vars

\* C16 witness: after a reset() that dropped a queued task, a task
\* dispatched before it is still running with its watchdog armed, and the
\* counter is 0.
C16_Witness ==
    /\ resets = 1
    /\ taskQueue.queue = <<>>
    /\ taskQueue.onGoingTask = 0
    /\ \E id, other \in TaskIds :
        /\ tasks[id].where = "dropped"
        /\ tasks[other].where = "dispatched"
        /\ tasks[other].executed = 0
        /\ tasks[other].watchdog = "armed"

(***************************************************************************)
(* More claims about the DataStore, checked under Spec.                    *)
(***************************************************************************)
\* The record of propertyId of deviceId in a store, undefined without one.
RecordOf(store, deviceId, propertyId) ==
    IF deviceId \in DOMAIN store /\ propertyId \in DOMAIN store[deviceId]
    THEN store[deviceId][propertyId]
    ELSE Undefined

\* C17: updateCurrentPropertyValue creates no record; when the property of
\* the device has one, its current value becomes the given value and its
\* aggregated values stay; every other record stays as it is.
C17_UpdateCurrentOnly ==
    [][lastUpdate' # Null =>
        /\ DOMAIN deviceData' = DOMAIN deviceData
        /\ \A deviceId \in DOMAIN deviceData :
                DOMAIN deviceData'[deviceId] = DOMAIN deviceData[deviceId]
        /\ \A deviceId \in Devices, propertyId \in Props :
            LET old == RecordOf(deviceData, deviceId, propertyId)
                new == RecordOf(deviceData', deviceId, propertyId)
            IN IF /\ deviceId = lastUpdate'.deviceId
                  /\ propertyId = lastUpdate'.propertyId
                  /\ old # Undefined
               THEN /\ new.currentValue = lastUpdate'.value
                    /\ new.aggregatedValues = old.aggregatedValues
               ELSE new = old]_vars

\* C17 witness: the call just made set the current value of a property
\* that has aggregated values in the cache, next to a device without a record.
C17_Witness ==
    /\ lastUpdate # Null
    /\ RecordOf(deviceData, lastUpdate.deviceId, lastUpdate.propertyId) # Undefined
    /\ deviceData[lastUpdate.deviceId][lastUpdate.propertyId].currentValue
            = lastUpdate.value
    /\ deviceData[lastUpdate.deviceId][lastUpdate.propertyId].aggregatedValues # <<>>
    /\ DOMAIN deviceData # Devices

\* C18 as stated: ingesting the fetch result of a query, which carries
\* aggregated values and no current value, leaves the current value that a
\* property of the query had before.
C18_IngestKeepsCurrentValue ==
    [][\A id \in DOMAIN queries :
        queries'[id].fetched > queries[id].fetched =>
            \A propertyId \in RangeOf(queries[id].query.propertyIds) :
                LET old == RecordOf(deviceData, queries[id].query.deviceId, propertyId)
                IN (old # Undefined /\ old.currentValue # Undefined) =>
                    deviceData'[queries[id].query.deviceId][propertyId].currentValue
                        = old.currentValue]_vars

\* This step ingests the fetch result of query id.
IngestOf(id) == queries'[id].fetched > queries[id].fetched

\* C19: ingesting the fetch result of a query for device D creates D's
\* record when it is missing and leaves every record of another device,
\* every record of a property of D that is not in the query, and the
\* aggregated values of the query's properties under every other time span
\* as they are.
C19_IngestFrame ==
    [][\A id \in DOMAIN queries :
        IngestOf(id) =>
            LET query == queries[id].query
                key == hashCode(query.dateTimeSpan)
            IN /\ query.deviceId \in DOMAIN deviceData'
               /\ \A deviceId \in Devices, propertyId \in Props :
                    LET old == RecordOf(deviceData, deviceId, propertyId)
                        new == RecordOf(deviceData', deviceId, propertyId)
                    IN IF deviceId = query.deviceId
                          /\ propertyId \in RangeOf(query.propertyIds)
                       THEN /\ new # Undefined
                            /\ DOMAIN new.aggregatedValues =
                                    {key} \cup (IF old = Undefined THEN {}
                                                ELSE DOMAIN old.aggregatedValues)
                            /\ \A k \in DOMAIN new.aggregatedValues \ {key} :
                                    new.aggregatedValues[k] = old.aggregatedValues[k]
                       ELSE new = old]_vars

\* C19 witness: the result just ingested was merged into a device record
\* that holds aggregated values under another time span for the same
\* property.
C19_Witness ==
    \E id \in Ingested :
        LET query == queries[id].query
        IN /\ Cardinality(DOMAIN deviceData[query.deviceId][query.propertyIds[1]]
                                    .aggregatedValues) = 2

\* C20: a getAggregatedValues call, whatever time span it asks for, leaves
\* the closures and the tasks of the queries submitted so far as they are;
\* no step changes the query of a closure; and the result of a fetch is
\* stored under the time span of its query, whatever time span the pool
\* has by then.
C20_SubmittedFetchKeepsWindow ==
    [][\A id \in DOMAIN queries :
        /\ queries'[id].query = queries[id].query
        /\ lastCall' # Null => (queries'[id] = queries[id] /\ tasks'[id] = tasks[id])
        /\ IngestOf(id) =>
            \A propertyId \in RangeOf(queries[id].query.propertyIds) :
                Cached(deviceData', queries[id].query.deviceId, propertyId,
                       queries[id].query.dateTimeSpan)
                    = AggregatedValues(queries[id].query.dateTimeSpan, id)]_vars

\* C20 witness: the result just ingested belongs to a query of a time span
\* that has been replaced in the pool since, and is cached under the
\* query's time span.
C20_Witness ==
    \E id \in Ingested :
        /\ requestPool.dateTimeSpan # Null
        /\ hashCode(requestPool.dateTimeSpan) # hashCode(queries[id].query.dateTimeSpan)
        /\ Cached(deviceData, queries[id].query.deviceId,
                  queries[id].query.propertyIds[1], queries[id].query.dateTimeSpan)
                = AggregatedValues(queries[id].query.dateTimeSpan, id)
        /\ Cached(deviceData, queries[id].query.deviceId,
                  queries[id].query.propertyIds[1], requestPool.dateTimeSpan)
                = Undefined

(***************************************************************************)
(* Claims about the order of dispatch and about reset(), under SpecTQ.     *)
(***************************************************************************)
\* The queue as the callback of this step found it, with the task the step
\* submits (if it submits one) put where addTask puts it.
QueueWithAdded ==
    IF \E id \in TaskIds : tasks[id].where = "none" /\ tasks'[id].where # "none"
    THEN LET id == CHOOSE id \in TaskIds :
                        tasks[id].where = "none" /\ tasks'[id].where # "none"
         IN IF tasks'[id].where = "queued"
            THEN {IF tasks'[id].front THEN <<id>> \o taskQueue.queue
                                      ELSE Append(taskQueue.queue, id)}
            ELSE {<<id>> \o taskQueue.queue, Append(taskQueue.queue, id)}
    ELSE {taskQueue.queue}

\* C23: every step without reset() dispatches the tasks at the head of the
\* queue and leaves the others waiting in their order, where addTask puts
\* a task at the end of the queue and with atBeginning at its head, in
\* front of every task that was waiting.
C23_DispatchOrder ==
    [][resets' = resets =>
        \E Q \in QueueWithAdded :
            \E k \in 0..Len(Q) :
                /\ taskQueue'.queue = SubSeq(Q, k + 1, Len(Q))
                /\ \A i \in 1..k : tasks'[Q[i]].where = "dispatched"
                /\ \A id \in TaskIds :
                    (tasks[id].where # "dispatched" /\ tasks'[id].where = "dispatched")
                        => \E i \in 1..k : Q[i] = id]_vars

\* C23 witness: a task added with atBeginning waits at the head of the
\* queue in front of a task that was submitted before it.
C23_Witness ==
    /\ resets = 0
    /\ Len(taskQueue.queue) = 2
    /\ tasks[taskQueue.queue[1]].front
    /\ taskQueue.queue[2] < taskQueue.queue[1]

\* Tasks submitted after the last reset() that were dispatched and whose
\* done() has not fired yet.  A task of an earlier epoch that is dispatched
\* was dispatched before the reset(), which dropped the others.
RunningSinceReset ==
    {id \in Running(tasks) : tasks[id].epoch = resets}

\* C30: after reset() the tasks dispatched since the reset and not yet
\* finished never number more than cocurrent, whatever the done() calls
\* and watchdogs of the tasks dispatched before the reset do.
C30_AtMostNAfterReset ==
    Cardinality(RunningSinceReset) <= taskQueue.cocurrent

(***************************************************************************)
(* Claims about the fetch tasks of the RequestPool, checked under Spec.    *)
(***************************************************************************)
\* The phases a settled fetch leaves its query in: notified, waiting for
\* the retry timer, given up.
SettledPhases == {"completed", "retryWait", "dropped"}

\* The phase of closure id in a list of closures that may not hold it yet.
PhaseIn(qs, id) == IF id \in DOMAIN qs THEN qs[id].phase ELSE "none"

\* C22: the step in which the fetch of a task settles (with success, with
\* a failure that arms a retry, with the failure that exhausts the retries)
\* has called the task's done(): the slot is released in that step unless
\* the watchdog released it before; and done() is called by nothing else
\* than the settling fetch and the watchdog.
C22_DoneWhenSettled ==
    [][\A id \in QueryIds :
        /\ (PhaseIn(queries', id) \in SettledPhases
                /\ PhaseIn(queries, id) \notin SettledPhases)
            => /\ tasks'[id].executed = 1
               /\ (PhaseIn(queries, id) = "fetching" /\ tasks[id].executed = 0)
                    => taskQueue'.onGoingTask = taskQueue.onGoingTask - 1
               /\ (PhaseIn(queries, id) = "fetching" /\ tasks[id].executed = 1)
                    => taskQueue'.onGoingTask = taskQueue.onGoingTask
        /\ (tasks[id].where = "dispatched" /\ tasks[id].executed = 0
                /\ tasks'[id].executed = 1)
            => \/ PhaseIn(queries', id) \in SettledPhases
               \/ tasks'[id].watchdog = "fired" /\ tasks[id].watchdog = "armed"]_vars

\* C22 witness: a query was dropped after its last retry failed; its task
\* has called done() and no slot of the requestQueue is taken.
C22_Witness ==
    \E id \in DOMAIN queries :
        /\ queries[id].phase = "dropped"
        /\ tasks[id].executed = 1
        /\ tasks[id].watchdog = "armed"
        /\ taskQueue.onGoingTask = 0

\* The phases of a query whose fetch task is outstanding: waiting in the
\* requestQueue, in flight, waiting for its retry timer.
OutstandingPhases == {"queued", "fetching", "retryWait"}

\* Queries a and b ask for a common (device, property, window) triple.
SameTriple(a, b) ==
    /\ a.deviceId = b.deviceId
    /\ hashCode(a.dateTimeSpan) = hashCode(b.dateTimeSpan)
    /\ \E propertyId \in Props :
        Includes(a.propertyIds, propertyId) /\ Includes(b.propertyIds, propertyId)

\* C24: no two outstanding fetch tasks of the DataStore ask for a common
\* (device, property, window) triple.
C24_NoDuplicateFetch ==
    \A a, b \in DOMAIN queries :
        (/\ a # b
         /\ queries[a].phase \in OutstandingPhases
         /\ queries[b].phase \in OutstandingPhases)
            => ~SameTriple(queries[a].query, queries[b].query)

\* Closure c asks for the triple (deviceId, propertyId, dateTimeSpan).
Covers(c, deviceId, propertyId, dateTimeSpan) ==
    /\ c.query.deviceId = deviceId
    /\ hashCode(c.query.dateTimeSpan) = hashCode(dateTimeSpan)
    /\ Includes(c.query.propertyIds, propertyId)

\* C25: a getAggregatedValues call for a triple of a query that was dropped
\* after its retries, the triple not having been fetched by another query,
\* returns undefined and records the request again; and every closure a
\* flush makes starts with retryAttempts = 0 and is submitted once, also
\* when a dropped query for the same triple exists.
C25_FreshAfterExhausted ==
    /\ lastCall # Null =>
        LET covering == {c \in RangeOf(queries) :
                Covers(c, lastCall.deviceId, lastCall.propertyId, lastCall.dateTimeSpan)}
        IN ((\E c \in covering : c.phase = "dropped")
                /\ (\A c \in covering : c.fetched = 0))
            => /\ lastCall.returned = Undefined
               /\ lastCall.requests =
                    <<<<lastCall.deviceId, lastCall.propertyId, lastCall.dateTimeSpan>>>>
               /\ \E i \in DOMAIN requestPool.requestedData :
                    /\ requestPool.requestedData[i].deviceId = lastCall.deviceId
                    /\ Includes(requestPool.requestedData[i].propertyIds,
                                lastCall.propertyId)
    /\ \A i \in DOMAIN FlushedClosures :
        /\ FlushedClosures[i].retryAttempts = 0
        /\ FlushedClosures[i].submitted = 1
        /\ FlushedClosures[i].phase \in {"fetching", "completed"}

\* C25 witness: a getAggregatedValues call for the triple of a query that
\* was dropped after its retries has just returned undefined and recorded
\* the request.
C25_Witness ==
    /\ lastCall # Null
    /\ lastCall.returned = Undefined
    /\ lastCall.requests # <<>>
    /\ \E c \in RangeOf(queries) :
        /\ c.phase = "dropped"
        /\ c.retryAttempts = RetryLimit + 1
        /\ Covers(c, lastCall.deviceId, lastCall.propertyId, lastCall.dateTimeSpan)

\* The state that follows: the flush has just submitted a fetch, with no
\* failure counted, for the query of the dropped closure.
C25_Resubmitted ==
    /\ flushed # Null
    /\ \E c \in RangeOf(queries) :
        /\ c.phase = "dropped"
        /\ c.retryAttempts = RetryLimit + 1
        /\ \E i \in DOMAIN FlushedClosures :
            /\ FlushedClosures[i].query = c.query
            /\ FlushedClosures[i].retryAttempts = 0
            /\ FlushedClosures[i].phase = "fetching"

\* The closures of the batch named b, and the events emitted for them.
BatchClosures(b) == {id \in DOMAIN queries : queries[id].batch = b}

RECURSIVE SumEmitted(_)
SumEmitted(ids) ==
    IF ids = {} THEN 0
    ELSE LET id == CHOOSE x \in ids : TRUE
         IN queries[id].emitted + SumEmitted(ids \ {id})

\* The fetch tasks of batch b are over: every query was notified or dropped.
BatchEnded(b) ==
    /\ BatchClosures(b) # {}
    /\ \A id \in BatchClosures(b) : queries[id].phase \in {"completed", "dropped"}

SameFields(a, b) ==
    /\ a.startSecond = b.startSecond
    /\ a.endSecond = b.endSecond
    /\ a.resolution = b.resolution

\* C21: the view passes a QueryCompleted event of its DataStore on to its
\* own listeners, once and unchanged, exactly when a time window is set on
\* the view and the key of the query's window is the key of that window;
\* otherwise it emits nothing.
C21_ReEmitsOwnWindow ==
    viewCall # Null =>
        LET propagate ==
                /\ dataView.dateTimeSpan # Undefined
                /\ hashCode(viewCall.eventArgs.query.dateTimeSpan)
                        = hashCode(dataView.dateTimeSpan)
        IN /\ propagate => viewCall.emitted = <<viewCall.eventArgs>>
           /\ ~propagate => viewCall.emitted = <<>>

\* C21 witness: the view has a window and has just passed on an event for
\* a query of another device with that window.
C21_Witness ==
    /\ viewCall # Null
    /\ dataView.dateTimeSpan # Undefined
    /\ viewCall.emitted = <<viewCall.eventArgs>>
    /\ viewCall.eventArgs.query.deviceId = "d2"
    /\ SameFields(viewCall.eventArgs.query.dateTimeSpan, dataView.dateTimeSpan)

\* C27: the hashCode of the window of the view and the hashCode of the
\* window of the query it has just handled are the same string exactly
\* when the two windows have the same startSecond, the same endSecond and
\* the same resolution.
C27_HashCodeInjective ==
    (viewCall # Null /\ dataView.dateTimeSpan # Undefined) =>
        (hashCode(viewCall.eventArgs.query.dateTimeSpan) = hashCode(dataView.dateTimeSpan)
            <=> SameFields(viewCall.eventArgs.query.dateTimeSpan, dataView.dateTimeSpan))

\* C27 witness: two windows whose fields written one after the other give
\* the same characters (1, 11 and 11, 1) have different hashCodes, and the
\* view has dropped the event.
C27_Witness ==
    /\ viewCall # Null
    /\ dataView.dateTimeSpan = DateTimeSpan(1, 11, <<"1", "m">>)
    /\ viewCall.eventArgs.query.dateTimeSpan = DateTimeSpan(11, 1, <<"1", "m">>)
    /\ viewCall.emitted = <<>>
    /\ ~viewCall.threw

(***************************************************************************)
(* Claim about the requestQueue shared by the pools, under SpecShared.     *)
(***************************************************************************)
\* The tasks of a pool that hold a slot: dispatched, done() not fired.
RunningOf(pool) == {id \in Running(tasks) : id \in DOMAIN poolOf /\ poolOf[id] = pool}

RECURSIVE SumRunning(_)
SumRunning(pools) ==
    IF pools = {} THEN 0
    ELSE LET pool == CHOOSE x \in pools : TRUE
         IN Cardinality(RunningOf(pool)) + SumRunning(pools \ {pool})

\* C29: the fetch tasks that hold a slot of the requestQueue, counted over
\* the RequestPools of all DataStores together, never number more than 6.
C29_AtMostSixOverAllPools ==
    /\ taskQueue.cocurrent = RequestQueueCocurrent
    /\ SumRunning(Pools) <= RequestQueueCocurrent
    /\ SumRunning(Pools) = Cardinality(Running(tasks))

\* C29 witness: tasks of two pools hold the six slots together, three
\* each, and a seventh task waits in the queue.
C29_Witness ==
    /\ Cardinality(RunningOf(1)) = 3
    /\ Cardinality(RunningOf(2)) = 3
    /\ Len(taskQueue.queue) = 1

(***************************************************************************)
(* Further claims about the TaskQueue, checked under SpecTQ.               *)
(***************************************************************************)
\* C37: as long as reset() has not been called, onGoingTask is the number
\* of dispatched tasks whose done() has not fired yet, and it is not
\* negative.
C37_CounterIsRunning ==
    /\ taskQueue.onGoingTask >= 0
    /\ resets = 0 => taskQueue.onGoingTask = Cardinality(Running(tasks))

\* C37 witness: two tasks hold a slot after a third one has finished, a
\* task that threw among the dispatched ones.
C37_Witness ==
    /\ resets = 0
    /\ taskQueue.onGoingTask = 2
    /\ \E id \in TaskIds : tasks[id].where = "dispatched" /\ tasks[id].executed = 1
    /\ \E id \in TaskIds : tasks[id].kind = "throws" /\ tasks[id].where = "dispatched"

(***************************************************************************)
(* Claim about EventSource, checked under SpecEvents.                      *)
(***************************************************************************)
\* C31: an emit call has called the handlers that were registered when it
\* was called, once per registration and in the order of registration.
C31_DeliveredToAll ==
    lastEmit # Null => lastEmit.delivered = lastEmit.handlers

\* A handler that de-registers itself made emit skip the handler behind it.
C31_Skipped ==
    /\ lastEmit # Null
    /\ lastEmit.handlers = <<1, 2>>
    /\ lastEmit.delivered = <<1>>
    /\ eventHandlers = <<2>>

\* Without removals during the delivery, emit calls every registration in order.
C31_Undisturbed ==
    (lastEmit # Null /\ Len(eventHandlers) = Len(lastEmit.handlers))
        => lastEmit.delivered = lastEmit.handlers

(***************************************************************************)
(* Claim about re-entrant calls, checked under SpecReentry.                *)
(***************************************************************************)
\* C32: with tasks that call addTask or their own done() inside the dispatch
\* loop, onGoingTask stays within the limit, every submitted task is either
\* once in the queue or dispatched, and no dispatched task is in the queue.
C32_ReentryConsistent ==
    /\ taskQueue.onGoingTask <= taskQueue.cocurrent
    /\ taskQueue.onGoingTask = Cardinality(Running(tasks))
    /\ \A id \in TaskIds :
        /\ tasks[id].where \in {"none", "queued", "dispatched"}
        /\ tasks[id].dispatches = IF tasks[id].where = "dispatched" THEN 1 ELSE 0
        /\ Cardinality({i \in DOMAIN taskQueue.queue : taskQueue.queue[i] = id})
               = IF tasks[id].where = "queued" THEN 1 ELSE 0

\* A dispatched task submitted a child inside the loop; the child was
\* dispatched by the inner loop and called its done() there.
C32_Witness ==
    \E id \in TaskIds, child \in TaskIds :
        /\ tasks[id].kind = "adds" /\ tasks[id].where = "dispatched"
        /\ tasks[id].executed = 0
        /\ tasks[child].kind = "child" /\ tasks[child].where = "dispatched"
        /\ tasks[child].executed = 1
        /\ tasks[child].watchdog = "armed"
        /\ taskQueue.onGoingTask = 1
        /\ executeNextTimers = 1

\* The child had to wait: the task that submitted it took the last slot.
C32_ChildWaits ==
    \E id \in TaskIds, child \in TaskIds :
        /\ tasks[id].kind = "adds" /\ tasks[id].where = "dispatched"
        /\ tasks[child].kind = "child" /\ tasks[child].where = "queued"
        /\ taskQueue.onGoingTask = taskQueue.cocurrent

(***************************************************************************)
(* Claims about the RequestPool and the DataStore, checked under Spec.     *)
(***************************************************************************)
\* C33: between callbacks the throttle timer is live exactly when requests
\* are pending, it is the only live timer, and a flush finds requests.
C33_TimerIffPending ==
    /\ requestPool.throttleTimerId # 0 <=> requestPool.requestedData # <<>>
    /\ DOMAIN throttleTimers =
          IF requestPool.throttleTimerId # 0 THEN {requestPool.throttleTimerId} ELSE {}
    /\ flushed # Null => flushed.requestedData # <<>>

\* After a flush a new request is pending and its timer is live.
C33_Witness ==
    /\ Len(queries) = 1
    /\ Len(requestPool.requestedData) = 1
    /\ requestPool.throttleTimerId # 0
    /\ requestPool.throttleTimerId \in DOMAIN throttleTimers

\* C34 as stated: a getAggregatedValues call leaves _deviceData as it was.
C34_Original == [][lastCall' # Null => deviceData' = deviceData]_vars

\* C34: a getAggregatedValues call creates and removes no DeviceData and
\* changes no PropertyData that exists (current value and aggregated values
\* stay); it adds at most an empty PropertyData for the property it was
\* asked about, to the DeviceData of the device it was asked about.
C34_OnlyEmptyPropertyData ==
    [][lastCall' # Null =>
        /\ DOMAIN deviceData' = DOMAIN deviceData
        /\ \A d \in DOMAIN deviceData :
            /\ DOMAIN deviceData[d] \subseteq DOMAIN deviceData'[d]
            /\ \A p \in DOMAIN deviceData[d] : deviceData'[d][p] = deviceData[d][p]
            /\ \A p \in DOMAIN deviceData'[d] \ DOMAIN deviceData[d] :
                /\ d = lastCall'.deviceId
                /\ p = lastCall'.propertyId
                /\ deviceData'[d][p] = PropertyData]_vars

\* A call for a property the device has no data of left an empty
\* PropertyData behind, next to the fetched one.
C34_Witness ==
    /\ lastCall # Null
    /\ lastCall.returned = Undefined
    /\ lastCall.deviceId \in DOMAIN deviceData
    /\ lastCall.propertyId \in DOMAIN deviceData[lastCall.deviceId]
    /\ deviceData[lastCall.deviceId][lastCall.propertyId] = PropertyData
    /\ \E p \in DOMAIN deviceData[lastCall.deviceId] :
            deviceData[lastCall.deviceId][p] # PropertyData

\* C36: aggregated values that are in the cache stay in the cache whatever
\* the step, and a getAggregatedValues call for a triple that is in the
\* cache returns the values and makes no addRequest call.
C36_CacheOnlyGrows ==
    [][/\ \A d \in Devices, p \in Props, dts \in TimeSpans :
            Cached(deviceData, d, p, dts) # Undefined
                => Cached(deviceData', d, p, dts) # Undefined
       /\ (/\ lastCall' # Null
           /\ Cached(deviceData, lastCall'.deviceId, lastCall'.propertyId,
                     lastCall'.dateTimeSpan) # Undefined)
            => /\ lastCall'.returned # Undefined
               /\ lastCall'.requests = <<>>
               /\ requestPool' = requestPool
               /\ throttleTimers' = throttleTimers]_vars

\* A hit for a triple whose fetch failed before it succeeded, after the
\* current value of the property was pushed.
C36_Witness ==
    /\ lastCall # Null
    /\ lastCall.returned # Undefined
    /\ lastCall.requests = <<>>
    /\ deviceData[lastCall.deviceId][lastCall.propertyId].currentValue # Undefined
    /\ \E id \in DOMAIN queries : queries[id].retryAttempts = 1 /\ queries[id].fetched = 1

\* Cached values survived the ingest of another query for the same device
\* and a change of the window of the pool.
C36_KeptAcrossIngest ==
    \E dts \in TimeSpans :
        /\ Cached(deviceData, "d1", "p1", dts) # Undefined
        /\ Len(queries) = 2
        /\ queries[1].query.deviceId = "d1" /\ queries[1].query.dateTimeSpan = dts
        /\ queries[2].query.deviceId = "d1" /\ queries[2].query.dateTimeSpan # dts
        /\ queries[2].fetched = 1
        /\ queries[1].phase = "completed"

\* C38: the queries a flush makes hold the devices, the property lists and
\* the time span the pool had at the flush, and no later step, an addRequest
\* call, a change of the window or a retry, changes the query of a closure.
C38_QueryIsSnapshot ==
    [][/\ flushed' # Null =>
            \A i \in DOMAIN flushed'.requestedData :
                queries'[flushed'.first + i - 1].query
                    = QueryParam(flushed'.dateTimeSpan,
                                 flushed'.requestedData[i].deviceId,
                                 flushed'.requestedData[i].propertyIds)
       /\ \A id \in DOMAIN queries :
            /\ queries'[id].query.deviceId = queries[id].query.deviceId
            /\ queries'[id].query.propertyIds = queries[id].query.propertyIds
            /\ queries'[id].query.dateTimeSpan = queries[id].query.dateTimeSpan]_vars

\* A query was submitted again for its retry while a request for another
\* property of its device, under another window, is pending in the pool.
C38_Witness ==
    /\ Len(queries) = 1
    /\ queries[1].submitted = 2
    /\ queries[1].retryAttempts = 1
    /\ queries[1].phase = "fetching"
    /\ queries[1].query = QueryParam(DateTimeSpan(0, 60, <<"1", "m">>), "d1", <<"p1">>)
    /\ requestPool.dateTimeSpan = DateTimeSpan(60, 120, <<"1", "m">>)
    /\ requestPool.requestedData = <<[deviceId |-> "d1", propertyIds |-> <<"p2">>]>>

(***************************************************************************)
(* Claim about a DataStore with a listening DataView, under SpecListener.  *)
(***************************************************************************)
\* C35: once the data of a query was fetched and merged into the cache, its
\* requestTask is not submitted to the requestQueue again.
C35_NoFetchAfterMerge ==
    [][\A id \in DOMAIN queries :
          queries[id].fetched >= 1 => queries'[id].submitted = queries[id].submitted]_vars

\* The handler of a view without time window threw: the merged query waits
\* for its retry.
C35_RetryAfterMerge ==
    \E id \in DOMAIN queries :
        /\ queries[id].fetched = 1
        /\ queries[id].emitted = 1
        /\ queries[id].retryAttempts = 1
        /\ queries[id].phase = "retryWait"
        /\ Cached(deviceData, queries[id].query.deviceId, "p1",
                  queries[id].query.dateTimeSpan) # Undefined

\* The same data was fetched five times and the query was given up.
C35_FetchedFiveTimes ==
    \E id \in DOMAIN queries :
        queries[id].fetched = 5 /\ queries[id].phase = "dropped"

(***************************************************************************)
(* Claim about retries in a full requestQueue, checked under SpecRetry.    *)
(***************************************************************************)
\* The queue with task id added at the back.
C39_Pushed(id) == Append(taskQueue.queue, id)

\* C39: a query that waits for its retry holds no slot of the requestQueue
\* and is not in its queue; when the retry timer fires, the task is put
\* behind the tasks that wait: the tasks the step dispatches are the head
\* of the old queue with the retry at the back, and the rest stays queued.
C39_RetryReleasesSlot ==
    [][/\ \A id \in DOMAIN queries' :
            queries'[id].phase = "retryWait" =>
                /\ tasks'[id].where = "dispatched"
                /\ tasks'[id].executed = 1
                /\ ~Includes(taskQueue'.queue, id)
       /\ taskQueue'.onGoingTask = Cardinality(Running(tasks'))
       /\ \A id \in DOMAIN queries :
            (queries[id].phase = "retryWait" /\ queries'[id].submitted > queries[id].submitted)
                => \E k \in 0..Len(C39_Pushed(id)) :
                      /\ taskQueue'.queue = SubSeq(C39_Pushed(id), k + 1, Len(C39_Pushed(id)))
                      /\ \A i \in 1..k :
                            /\ tasks'[C39_Pushed(id)[i]].where = "dispatched"
                            /\ tasks[C39_Pushed(id)[i]].where = "queued"
                                  \/ C39_Pushed(id)[i] = id]_vars

\* The retry of a failed fetch waits behind a task that was queued before
\* the retry timer fired; all six slots are taken by other tasks.
C39_Witness ==
    \E id \in DOMAIN queries, other \in DOMAIN queries :
        /\ taskQueue.queue = <<other, id>>
        /\ queries[id].retryAttempts = 1
        /\ queries[id].submitted = 2
        /\ queries[other].submitted = 1
        /\ taskQueue.onGoingTask = RequestQueueCocurrent

\* A query waits for its retry while the slot it had is used by a task
\* that was waiting.
C39_SlotReused ==
    \E id \in DOMAIN queries :
        /\ queries[id].phase = "retryWait"
        /\ taskQueue.onGoingTask = RequestQueueCocurrent
        /\ Cardinality({t \in DOMAIN queries : queries[t].phase = "fetching"})
              = RequestQueueCocurrent


====
